---------------------------- MODULE Spec2Model ----------------------------
(***************************************************************************)
(* PyOdin Web: the Odin/Loke flashing protocol as driven by OdinFlasher    *)
(* (connectDevice, flash) and DownloadEngine (uploadBinaries, transferFile,*)
(* transferFileStreamingLZ4, receivePitData, closeConnection,              *)
(* rebootDevice).  One action is one transport operation (a write, a       *)
(* zero-length write or a read) together with the straight-line code that  *)
(* follows it up to the next transport operation.  The device, the         *)
(* decompressors and the file reader are the environment: their results    *)
(* are drawn from small sets.                                              *)
(*                                                                         *)
(* Numbers.  TLC integers are 32-bit signed.  Byte counts that stay below  *)
(* 2^31 (chunk sizes, offsets, sizes of members sent by transferFile) are  *)
(* plain integers.  Sizes that may exceed it (item.info.actualSize, the    *)
(* total declared at session open) are kept as a pair [g, b] standing for  *)
(* g * 2^30 + b with 0 <= b < 2^30.  The u32 value 0xFFFFFFFF is written   *)
(* Refused (-1, its two's complement reading); it is only ever compared    *)
(* for equality.                                                           *)
(***************************************************************************)
EXTENDS Integers, Sequences, FiniteSets, TLC

(***************************************************************************)
(* Program constants                                                       *)
(***************************************************************************)
BufLen == 1024
InitPacketSize == 1024
FileTransferPacketSize == 131072
MAX_CHUNK_SIZE == 31457280
SEND_BUFFER_SIZE == 30 * 1024 * 1024
GiB == 1024 * 1024 * 1024
MiB == 1024 * 1024
Refused == -1
NULL == -2

Min(a, b) == IF a < b THEN a ELSE b
CeilDiv(a, b) == (a + b - 1) \div b

(***************************************************************************)
(* Wide sizes: [g, b] stands for g * 2^30 + b.                             *)
(***************************************************************************)
Sz(g, b) == [g |-> g, b |-> b]
SzOfBytes(n) == [g |-> n \div GiB, b |-> n % GiB]
SzAdd(x, y) ==
    LET s == x.b + (y.b - GiB)
    IN  IF s >= 0 THEN [g |-> x.g + y.g + 1, b |-> s]
                  ELSE [g |-> x.g + y.g, b |-> s + GiB]
RECURSIVE SzTimes(_, _)
SzTimes(x, k) == IF k = 0 THEN [g |-> 0, b |-> 0] ELSE SzAdd(SzTimes(x, k - 1), x)
SzGT(x, y) == x.g > y.g \/ (x.g = y.g /\ x.b > y.b)
SzBytes(x) == x.g * GiB + x.b
StreamingThreshold == Sz(4, 0)

(***************************************************************************)
(* File names are sequences of one-character strings, so that endsWith and *)
(* includes are computed as JavaScript computes them.                      *)
(***************************************************************************)
EndsWith(s, suf) ==
    /\ Len(suf) <= Len(s)
    /\ SubSeq(s, Len(s) - Len(suf) + 1, Len(s)) = suf
Includes(s, sub) ==
    \E i \in 1..(Len(s) - Len(sub) + 1) : SubSeq(s, i, i + Len(sub) - 1) = sub

SufLz4 == <<".", "l", "z", "4">>
SufGz == <<".", "g", "z">>
SufZip == <<".", "z", "i", "p">>
StrMetaData == <<"m", "e", "t", "a", "-", "d", "a", "t", "a", "/">>

NameBootImg == <<"b", "o", "o", "t", ".", "i", "m", "g">>
NameBootLz4 == NameBootImg \o SufLz4
NameSuperLz4 == <<"s", "u", "p", "e", "r", ".", "i", "m", "g">> \o SufLz4
NameModemGz == <<"m", "o", "d", "e", "m", ".", "b", "i", "n">> \o SufGz
NameMeta == StrMetaData \o <<"x">>
NameHomeZip == <<"h", "o", "m", "e">> \o SufZip
SufPit == <<".", "p", "i", "t">>
NamePit == <<"a">> \o SufPit

(***************************************************************************)
(* utils.js: little-endian packing.  A byte buffer is a sequence of bytes. *)
(***************************************************************************)
RECURSIVE NumberToLE(_, _)
NumberToLE(num, bytes) ==
    IF bytes = 0 THEN <<>> ELSE <<num % 256>> \o NumberToLE(num \div 256, bytes - 1)
RECURSIVE LEToNumber(_, _, _)
LEToNumber(arr, offset, bytes) ==
    IF bytes = 0 THEN 0
    ELSE arr[offset + 1] + 256 * LEToNumber(arr, offset + 1, bytes - 1)
RECURSIVE StructPackI(_)
StructPackI(values) ==
    IF values = <<>> THEN <<>>
    ELSE NumberToLE(Head(values), 4) \o StructPackI(Tail(values))
\* structPack('<Q', value): low = value & 0xFFFFFFFF, high = floor(value / 2^32)
StructPackQ(value) ==
    LET b3 == (value.b \div 16777216) + 64 * (value.g % 4)
        high == value.g \div 4
    IN  NumberToLE(value.b % 16777216, 3) \o <<b3>> \o NumberToLE(high, 4)
\* the u64 at a byte offset of a buffer, as a wide size
UnpackQ(arr, offset) ==
    LET b3 == arr[offset + 4]
    IN  [g |-> (b3 \div 64) + 4 * LEToNumber(arr, offset + 4, 3),
         b |-> LEToNumber(arr, offset, 3) + 16777216 * (b3 % 64)]

(***************************************************************************)
(* A command buffer is new Uint8Array(1024).  Only its first HeadLen bytes *)
(* are ever written by the program, so a buffer is modelled by that head;  *)
(* the bytes behind it are zero from allocation on.                        *)
(***************************************************************************)
HeadLen == 8 * 4
ZeroBuf == [i \in 1..HeadLen |-> 0]
\* buf.set(bytes, at)
BufSet(b, bytes, at) ==
    [i \in 1..HeadLen |-> IF i > at /\ i <= at + Len(bytes) THEN bytes[i - at] ELSE b[i]]
\* buf.fill(0)
BufFill(b) == ZeroBuf
\* a variant that writes the packed fields alone
CmdFramePayloadOnly(b, packetSize, outcome) ==
    [kind |-> "cmd", len |-> Min(HeadLen, packetSize), head |-> b, res |-> outcome,
     from |-> 0, actual |-> 0]
\* buf.slice(0, packetSize) handed to usbDevice.write
CmdFrame(b, packetSize, outcome) ==
    [kind |-> "cmd", len |-> Min(BufLen, packetSize), head |-> b, res |-> outcome,
     from |-> 0, actual |-> 0]
DataFrame(length, from, actual, outcome) ==
    [kind |-> "data", len |-> length, head |-> ZeroBuf, res |-> outcome,
     from |-> from, actual |-> actual]
RawFrame(length, outcome) ==
    [kind |-> "raw", len |-> length, head |-> ZeroBuf, res |-> outcome,
     from |-> 0, actual |-> 0]
EmptyFrame(outcome) ==
    [kind |-> "zlp", len |-> 0, head |-> ZeroBuf, res |-> outcome, from |-> 0, actual |-> 0]
NoFrame ==
    [kind |-> "none", len |-> 0, head |-> ZeroBuf, res |-> "ok", from |-> 0, actual |-> 0]
FrameCmd(w) == LEToNumber(w.head, 0, 4)
FrameSub(w) == LEToNumber(w.head, 4, 4)
FrameArg(w, k) == LEToNumber(w.head, 8 + 4 * k, 4)

(***************************************************************************)
(* State                                                                   *)
(***************************************************************************)
VARIABLES
    pc,         \* position of the single session task
    err,        \* message of the error that ended the running operation
    items,      \* firmwareData.items
    idx,        \* uploadBinaries: index of the item being processed (1-based)
    eng,        \* DownloadEngine fields: packetSize, protocolVersion, progressCallback
    buf,        \* head of the command buffer of the running function
    tf,         \* locals of transferFile
    st,         \* locals of transferFileStreamingLZ4 and of its flushBuffer
    fsh,        \* OdinFlasher fields and locals of connectDevice / flash
    pit,        \* locals of receivePitData / sendPitData
    lastWrite,  \* the last buffer handed to usbDevice.write
    ops,        \* the last transport operations, oldest first
    mlog,       \* frames written for the member being transferred
    sess,       \* session-open declaration and bytes finalized during this flash
    usb,        \* what usbDevice.read last returned; a transferIn left outstanding
    ui,         \* the page: its flags, its buttons, the calls it is awaiting
    calc        \* a call of a function that touches no device: argument and result

\* the state of the flasher's session; `vars` adds the page
session == <<pc, err, items, idx, eng, buf, tf, st, fsh, pit, lastWrite, ops, mlog, sess, usb>>
vars == <<session, ui, calc>>
\* no such call is being looked at
NoCalc == [fn |-> "none"]

(***************************************************************************)
(* The environment: what the device and the USB stack may answer.          *)
(***************************************************************************)
WriteOutcomes == {"ok", "partial", "throw"}
EmptyOutcomes == {"ok", "throw"}
ReplyLens == {7, 8, 64}
ReplyCmds == {100, 101, 102, Refused}
ReplyData == {0, 1}
Replies == [len : ReplyLens, cmd : ReplyCmds, data : ReplyData]
\* the data word of a version reply: (version << 16) | default packet size
VersionData == {0, 3 * 65536 + 512, 4 * 65536}
\* usbDevice.read rejects because transferIn rejects ("USB read failed"), or because
\* the timer wins Promise.race ("USB read timeout"); transferIn then stays outstanding
ReadThrows == [len |-> NULL, cmd |-> 0, data |-> 0]
ReadTimesOut == [len |-> NULL, cmd |-> NULL, data |-> 0]
Rejects(r) == r.len = NULL
ReadOutcomes == Replies \cup {ReadThrows, ReadTimesOut}
VersionReplies ==
    [len : ReplyLens, cmd : {100, Refused}, data : VersionData] \cup {ReadThrows, ReadTimesOut}
\* the pitData argument of flash and firmwareData.pitData: absent, or a length in bytes
PitArgs == {NULL, 8}
EmbeddedPits == {NULL, 4096}
\* the PIT size a device may announce
PitSizes == {0, 1, 501, 1048576 + 1}

(***************************************************************************)
(* Observation of the transport                                            *)
(***************************************************************************)
OpsWindow == 4
Push(o, tok) == LET a == Append(o, tok) IN IF Len(a) > OpsWindow THEN Tail(a) ELSE a
\* the reply of the read just made, and where it was made; `pending` says that a
\* read of the running operation timed out, so that its transferIn is outstanding
NoReply == [at |-> "none", len |-> 0, cmd |-> 0, data |-> 0]
\* `watch` is fixed by the initial state: the specifications that state nothing
\* about replies leave it off, and `usb` then records nothing
\* `short`: a data block of the running operation went out in part only;
\* `overlap`: a transfer was issued while a transferIn was outstanding
\* `stop`: what the transport did since the user confirmed stopFlash's dialog:
\* "none" (nothing yet), "boundary" (a chunk's finalizer went out), "ignored" (a
\* sequence-begin frame went out after that finalizer)
NoUsb ==
    [watch |-> FALSE, reply |-> NoReply, pending |-> FALSE, short |-> FALSE,
     overlap |-> FALSE, stop |-> "none"]
IsSequenceBegin(w) == w.kind = "cmd" /\ FrameCmd(w) = 102 /\ FrameSub(w) = 2
IsFinalizer(w) == w.kind = "cmd" /\ FrameCmd(w) = 102 /\ FrameSub(w) = 3
AfterStop(phase, w) ==
    IF ~ui.stopRequested THEN "none"
    ELSE IF phase = "none" /\ IsFinalizer(w) THEN "boundary"
    ELSE IF phase = "boundary" /\ IsSequenceBegin(w) /\ w.res = "ok" THEN "ignored"
    ELSE phase
WatchedUsb == [NoUsb EXCEPT !.watch = TRUE]
ReplyAt(at, r) == [at |-> at, len |-> r.len, cmd |-> r.cmd, data |-> r.data]
Sent(w, tok) ==
    /\ lastWrite' = w
    /\ ops' = Push(ops, tok)
    /\ usb' = [usb EXCEPT !.reply = NoReply,
                          !.short = @ \/ (usb.watch /\ w.kind = "data" /\ w.res = "partial"),
                          !.overlap = @ \/ usb.pending,
                          !.stop = AfterStop(@, w)]
DidRead(r) ==
    /\ ops' = Push(ops, "read")
    /\ UNCHANGED lastWrite
    /\ usb' = IF usb.watch
              THEN [usb EXCEPT !.reply = ReplyAt(pc, r),
                               !.pending = @ \/ r = ReadTimesOut,
                               !.overlap = @ \/ usb.pending]
              ELSE usb
\* a step of the program that issues no transfer
NoTransfer == UNCHANGED <<lastWrite, ops>> /\ usb' = [usb EXCEPT !.reply = NoReply]
NoMemberLog ==
    [path |-> "none", size |-> 0, seq |-> <<>>, fin |-> <<>>, blocks |-> 0, bytes |-> 0,
     zlpFailed |-> FALSE, done |-> FALSE]
MemberLog(path, size) == [NoMemberLog EXCEPT !.path = path, !.size = size]
\* the transport is observed one operation (connect, flash, dump) at a time
\* `opened`: the reply to the session-open frame has been read
NoSession == [declared |-> NULL, finalized |-> 0, opened |-> FALSE]
StartObserving ==
    /\ lastWrite' = NoFrame /\ ops' = <<>> /\ mlog' = NoMemberLog /\ sess' = NoSession
    /\ usb' = [NoUsb EXCEPT !.watch = usb.watch]

NoError == [msg |-> "", code |-> NULL]
Error(msg) == [msg |-> msg, code |-> NULL]
ErrorCode(msg, code) == [msg |-> msg, code |-> code]
\* a throw that nothing catches before the caller of connectDevice / flash
Raise(e) == pc' = "error" /\ err' = e
Goto(l) == pc' = l /\ UNCHANGED err
\* a call is made when the page holds control: the last call of connectDevice,
\* flash or dumpPit has returned ("idle") or has thrown ("error")
Enter(l) == pc' = l /\ err' = NoError

\* the continuation computed by the straight-line code after a transport operation
Cont(l, t, b, i) == [pc |-> l, err |-> NoError, tf |-> t, buf |-> b, idx |-> i]
Thrown(e, t, b, i) == [pc |-> "error", err |-> e, tf |-> t, buf |-> b, idx |-> i]
Apply(r) ==
    /\ pc' = r.pc
    /\ err' = (IF r.pc = "error" THEN r.err ELSE err)
    /\ tf' = r.tf
    /\ buf' = r.buf
    /\ idx' = r.idx

(***************************************************************************)
(* DownloadEngine.transferFile                                             *)
(***************************************************************************)
TfInit ==
    [data |-> NULL, fileSize |-> 0, offset |-> 0, sequenceNum |-> 0, chunkSize |-> 0,
     chunkOffset |-> 0, blockCount |-> 0, blockSize |-> 0,
     block |-> [len |-> 0, dataLen |-> 0], completionStatus |-> 0,
     partitionId |-> 0, deviceType |-> 0]

\* compressionType as transferFile determines it (lines 412-419)
CompressionType(item) ==
    IF item.info.compression_type # "none" THEN item.info.compression_type
    ELSE IF EndsWith(item.filename, SufLz4) THEN "lz4"
    ELSE IF EndsWith(item.filename, SufGz) THEN "gzip"
    ELSE "none"

\* Uint8Array.slice(start, end).length
SliceLen(total, start, end) ==
    LET e == Min(end, total) IN IF start < e THEN e - start ELSE 0
\* a variant that sends the last block unpadded
NoPadding(length) == length
\* "Pad to full packet size"
PadBlock(length) ==
    IF length < FileTransferPacketSize THEN FileTransferPacketSize ELSE length
\* a variant that announces the whole rest of the member as one sequence
ChunkSizeWhole(remaining) == remaining
ChunkSizeOf(remaining) == Min(remaining, MAX_CHUNK_SIZE)
BlockSizeOf(left) == Min(FileTransferPacketSize, left)
CompletionStatusOf(fileSize, offset, chunkSize) ==
    IF fileSize - (offset + chunkSize) <= 0 THEN 1 ELSE 0
\* buf.fill(0); buf.set(structPack('<II', 102, 3), 0); buf.set(structPack('<IIIIII', ...), 8)
FinalizerBuf(b, actual, deviceType, partitionId, completionStatus) ==
    BufSet(BufSet(BufFill(b), StructPackI(<<102, 3>>), 0),
           StructPackI(<<0, actual, 0, deviceType, partitionId, completionStatus>>), 8)
\* buf.fill(0); buf.set(structPack('<III', cmd, sub, arg), 0)
CommandBuf(b, cmd, sub, arg) == BufSet(BufFill(b), StructPackI(<<cmd, sub, arg>>), 0)

\* the skip tests without the '.zip' test of line 324
SkipItemKeepsZip(item) ==
    \/ item.data = NULL /\ ~item.info.isLargeFile
    \/ item.data # NULL /\ item.data = 0
    \/ Includes(item.filename, StrMetaData)
\* uploadBinaries, lines 311-327: the three skip tests
SkipItem(item) ==
    \/ item.data = NULL /\ ~item.info.isLargeFile
    \/ item.data # NULL /\ item.data = 0
    \/ Includes(item.filename, StrMetaData)
    \/ EndsWith(item.filename, SufZip)

\* uploadBinaries, lines 308-341: the transfer loop up to the call of transferFile
UploadBinariesLoop ==
    /\ pc = "ub_loop"
    /\ IF idx > Len(items)
         THEN Goto("fl_close_w") /\ UNCHANGED idx
         ELSE IF SkipItem(items[idx])
              THEN Goto("ub_loop") /\ idx' = idx + 1
              ELSE Goto("tf_entry") /\ UNCHANGED idx
    /\ UNCHANGED <<items, eng, buf, tf, st, fsh, pit, mlog, sess>>
    /\ NoTransfer
    /\ UNCHANGED <<ui, calc>>

\* item.info.partition_id || 0, item.info.device_type || 2
PartitionIdOf(info) == IF info.partition_id \in {NULL, 0} THEN 0 ELSE info.partition_id
DeviceTypeOf(info) == IF info.device_type \in {NULL, 0} THEN 2 ELSE info.device_type

\* the while test of the chunk loop (line 498) and what follows it
TfLoopHead(t, b, i) ==
    IF t.offset < t.fileSize
    THEN LET chunkSize == ChunkSizeOf(t.fileSize - t.offset)
         IN  Cont("tf_seq_w", [t EXCEPT !.chunkSize = chunkSize],
                  CommandBuf(b, 102, 2, chunkSize), i)
    ELSE Cont("ub_loop", TfInit, b, i + 1)

\* Blob.slice(start, end) of the item's file, then arrayBuffer(): the bytes the file
\* holds in that range (lines 559-568)
BlobSliceLen(item, start, end) ==
    IF item.content.fileLen = NULL THEN end - start
    ELSE SliceLen(item.content.fileLen, start, end)
\* the while test of the block loop (line 534), the block read and its padding;
\* after the last block, the finalizer is built (lines 633-646)
TfBlockHead(t, b, i, fileOk) ==
    IF t.chunkOffset < t.chunkSize
    THEN LET blockSize == BlockSizeOf(t.chunkSize - t.chunkOffset)
             blockStart == t.offset + t.chunkOffset
             got == IF t.data # NULL
                    THEN SliceLen(t.data, blockStart, blockStart + blockSize)
                    ELSE BlobSliceLen(items[i], items[i].info.fileOffset + blockStart,
                                      items[i].info.fileOffset + blockStart + blockSize)
             t2 == [t EXCEPT !.blockSize = blockSize,
                             !.block = [len |-> PadBlock(got), dataLen |-> got]]
         IN  IF t.data # NULL /\ blockStart >= t.data
             THEN Thrown(Error("Reading beyond data array"), t, b, i)
             ELSE IF t.data = NULL /\ ~fileOk
             THEN Thrown(Error("Failed to read block"), t, b, i)
             ELSE Cont(IF t.blockCount > 0 THEN "tf_blk_zlp" ELSE "tf_blk_w", t2, b, i)
    ELSE LET completionStatus == CompletionStatusOf(t.fileSize, t.offset, t.chunkSize)
         IN  Cont("tf_fin_zlp1", [t EXCEPT !.completionStatus = completionStatus],
                  FinalizerBuf(b, t.chunkOffset, t.deviceType, t.partitionId,
                               completionStatus), i)

\* transferFile, lines 356-472: data source, decompression, partition info
TransferFileEntry ==
    /\ pc = "tf_entry"
    /\ LET item == items[idx]
           info == item.info
           hasSource == info.isLargeFile /\ info.fileHandle /\ info.fileOffset # NULL
           large == SzGT(info.actualSize, StreamingThreshold)
           data0 == IF item.data # NULL THEN item.data
                    ELSE IF info.is_compressed /\ ~large THEN SzBytes(info.actualSize)
                    ELSE NULL
           fileSize0 == IF data0 # NULL THEN data0
                        ELSE IF info.is_compressed THEN 0
                        ELSE SzBytes(info.actualSize)
           ctype == CompressionType(item)
           inflate == info.is_compressed /\ data0 # NULL /\ ctype \in {"gzip", "lz4"}
           plain == item.content.plain
           data1 == IF inflate THEN plain ELSE data0
           t == [TfInit EXCEPT !.data = data1,
                               !.fileSize = IF inflate THEN plain ELSE fileSize0,
                               !.partitionId = PartitionIdOf(info),
                               !.deviceType = DeviceTypeOf(info)]
       IN  IF item.data = NULL /\ ~hasSource
           THEN Raise(Error("No data available")) /\ UNCHANGED <<tf, st, buf, mlog>>
           ELSE IF inflate /\ plain = NULL
           THEN Raise(Error("decompression failed")) /\ UNCHANGED <<tf, st, buf, mlog>>
           ELSE IF inflate /\ ctype = "lz4" /\ plain = 0
           THEN /\ Raise(Error("LZ4 decompression returned empty data"))
                /\ UNCHANGED <<tf, st, buf, mlog>>
           ELSE IF info.is_compressed /\ data0 = NULL
           THEN \* isStreamingCompressed: transferFileStreamingLZ4(item, partitionId, deviceType)
                /\ Goto("st_act_w")
                /\ tf' = t
                /\ buf' = BufSet(ZeroBuf, StructPackI(<<102, 0, 0>>), 0)
                /\ mlog' = MemberLog("st", 0)
                /\ UNCHANGED st
           ELSE /\ Goto("tf_act_w")
                /\ tf' = t
                /\ buf' = BufSet(ZeroBuf, StructPackI(<<102, 0, 0>>), 0)
                /\ mlog' = MemberLog("tf", t.fileSize)
                /\ UNCHANGED st
    /\ UNCHANGED <<items, idx, eng, fsh, pit, sess>>
    /\ NoTransfer
    /\ UNCHANGED <<ui, calc>>

\* line 481: write the activation frame (102, 0, 0)
TfActivate ==
    /\ pc = "tf_act_w"
    /\ \E o \in WriteOutcomes :
          /\ Sent(CmdFrame(buf, eng.packetSize, o), "cmd")
          /\ IF o = "throw" THEN Raise(Error("USB write failed")) ELSE Goto("tf_act_r")
    /\ UNCHANGED <<items, idx, eng, buf, tf, st, fsh, pit, mlog, sess>>
    /\ UNCHANGED <<ui, calc>>

\* lines 483-498: the activation reply, then the head of the chunk loop
TfActivateReply ==
    /\ pc = "tf_act_r"
    /\ \E r \in ReadOutcomes :
       /\ DidRead(r)
       /\ Apply(IF Rejects(r) THEN Thrown(Error("USB read failed"), tf, buf, idx)
                ELSE IF r.len < 8
                THEN Thrown(Error("File transfer activation timeout"), tf, buf, idx)
                ELSE IF r.cmd # 102
                THEN Thrown(Error("File transfer activation rejected"), tf, buf, idx)
                ELSE TfLoopHead(tf, buf, idx))
    /\ mlog' = [mlog EXCEPT !.done = (pc' = "ub_loop")]
    /\ UNCHANGED <<items, eng, st, fsh, pit, sess>>
    /\ UNCHANGED <<ui, calc>>

\* line 507: write the sequence-begin frame (102, 2, chunkSize)
TfSequenceBegin ==
    /\ pc = "tf_seq_w"
    /\ \E o \in WriteOutcomes :
          LET w == CmdFrame(buf, eng.packetSize, o)
          IN  /\ Sent(w, "cmd")
              /\ IF o = "throw"
                 THEN Raise(Error("USB write failed")) /\ UNCHANGED mlog
                 ELSE /\ Goto("tf_seq_r")
                      /\ mlog' = [mlog EXCEPT !.seq = Append(@, FrameArg(w, 0)),
                                               !.blocks = 0, !.bytes = 0]
    /\ UNCHANGED <<items, idx, eng, buf, tf, st, fsh, pit, sess>>
    /\ UNCHANGED <<ui, calc>>

\* lines 509-534: the sequence-begin reply, then the head of the block loop
TfSequenceReply ==
    /\ pc = "tf_seq_r"
    /\ \E r \in ReadOutcomes, fileOk \in BOOLEAN :
       /\ DidRead(r)
       /\ Apply(IF Rejects(r) THEN Thrown(Error("USB read failed"), tf, buf, idx)
                ELSE IF r.len < 8 THEN Thrown(Error("Sequence begin timeout"), tf, buf, idx)
                ELSE IF r.cmd # 102
                THEN Thrown(Error("Sequence begin rejected"), tf, buf, idx)
                ELSE TfBlockHead([tf EXCEPT !.chunkOffset = 0, !.blockCount = 0],
                                 buf, idx, fileOk))
    /\ UNCHANGED <<items, eng, st, fsh, pit, mlog, sess>>
    /\ UNCHANGED <<ui, calc>>

\* a variant without the try/catch around the empty transfer
AbortOnFailedEmptyWrite(outcome, next) == IF outcome = "throw" THEN "error" ELSE next
\* try { await this.usbDevice.write(new Uint8Array(0)); } catch (e) {}
AfterEmptyWrite(outcome, next) == next

\* lines 587-593: the empty transfer before a block that is not the chunk's first
TfBlockEmpty ==
    /\ pc = "tf_blk_zlp"
    /\ \E o \in EmptyOutcomes :
          /\ Sent(EmptyFrame(o), "zlp")
          /\ pc' = AfterEmptyWrite(o, "tf_blk_w")
          /\ err' = (IF pc' = "error" THEN Error("USB write failed") ELSE err)
          /\ mlog' = [mlog EXCEPT !.zlpFailed = @ \/ o = "throw"]
    /\ UNCHANGED <<items, idx, eng, buf, tf, st, fsh, pit, sess>>
    /\ UNCHANGED <<ui, calc>>

\* what usbDevice.write reports for a buffer of n bytes
Written(n, outcome) == IF outcome = "ok" THEN n ELSE n \div 2

\* a variant that goes on to the next block without reading the acknowledgement
AfterBlockWriteNoAck(t, b, i, written) ==
    IF written # FileTransferPacketSize
    THEN Thrown(Error("Expected to write 131072"), t, b, i)
    ELSE TfBlockHead([t EXCEPT !.chunkOffset = @ + t.blockSize, !.blockCount = @ + 1],
                     b, i, TRUE)
\* lines 601-606: the count written is tested, then the acknowledgement is awaited
AfterBlockWrite(t, b, i, written) ==
    IF written # FileTransferPacketSize
    THEN Thrown(Error("Expected to write 131072"), t, b, i)
    ELSE Cont("tf_blk_r", t, b, i)

\* lines 598-603: write the data block and test the count written
TfBlockWrite ==
    /\ pc = "tf_blk_w"
    /\ \E o \in WriteOutcomes :
          /\ Sent(DataFrame(tf.block.len, tf.offset + tf.chunkOffset, tf.block.dataLen, o),
                  "data")
          /\ IF o = "throw"
             THEN /\ Apply(Thrown(Error("USB write failed"), tf, buf, idx))
                  /\ UNCHANGED mlog
             ELSE /\ mlog' = [mlog EXCEPT !.blocks = @ + 1, !.bytes = @ + tf.block.dataLen]
                  /\ Apply(AfterBlockWrite(tf, buf, idx, Written(tf.block.len, o)))
    /\ UNCHANGED <<items, eng, st, fsh, pit, sess>>
    /\ UNCHANGED <<ui, calc>>

\* lines 615-627: the progress callback, called when more than 500 ms have passed
ProgressThrows(callback, due) == callback = "throws" /\ due

\* lines 606-634: the block acknowledgement, then the head of the block loop
TfBlockReply ==
    /\ pc = "tf_blk_r"
    /\ \E r \in ReadOutcomes, fileOk \in BOOLEAN, due \in BOOLEAN :
       /\ DidRead(r)
       /\ LET t == [tf EXCEPT !.chunkOffset = @ + tf.blockSize, !.blockCount = @ + 1]
          IN  Apply(IF Rejects(r)
                    THEN Thrown(Error("USB read failed"), tf, buf, idx)
                    ELSE IF r.len # 8
                    THEN Thrown(Error("Expected 8-byte response"), tf, buf, idx)
                    ELSE IF ProgressThrows(eng.progressCallback, due)
                    THEN Thrown(Error("progress callback"), t, buf, idx)
                    ELSE TfBlockHead(t, buf, idx, fileOk))
    /\ UNCHANGED <<items, eng, st, fsh, pit, mlog, sess>>
    /\ UNCHANGED <<ui, calc>>

\* line 657: the empty transfer before the finalizer
TfFinalizeEmptyBefore ==
    /\ pc = "tf_fin_zlp1"
    /\ \E o \in EmptyOutcomes :
          /\ Sent(EmptyFrame(o), "zlp")
          /\ pc' = AfterEmptyWrite(o, "tf_fin_w")
          /\ err' = (IF pc' = "error" THEN Error("USB write failed") ELSE err)
          /\ mlog' = [mlog EXCEPT !.zlpFailed = @ \/ o = "throw"]
    /\ UNCHANGED <<items, idx, eng, buf, tf, st, fsh, pit, sess>>
    /\ UNCHANGED <<ui, calc>>

\* the finalizer as it stands in a written frame
FinalizerOf(w, blocks, bytes) ==
    [actual |-> FrameArg(w, 1), deviceType |-> FrameArg(w, 3),
     partitionId |-> FrameArg(w, 4), completion |-> FrameArg(w, 5),
     len |-> w.len, blocks |-> blocks, bytes |-> bytes]

\* line 660: write the finalizer (102, 3, ...)
TfFinalize ==
    /\ pc = "tf_fin_w"
    /\ \E o \in WriteOutcomes :
          LET w == CmdFrame(buf, eng.packetSize, o)
          IN  /\ Sent(w, "fin")
              /\ IF o = "throw"
                 THEN Raise(Error("USB write failed")) /\ UNCHANGED <<mlog, sess>>
                 ELSE /\ Goto("tf_fin_zlp2")
                      /\ mlog' = [mlog EXCEPT !.fin = Append(@, FinalizerOf(w, mlog.blocks, mlog.bytes))]
                      /\ sess' = [sess EXCEPT !.finalized = @ + FrameArg(w, 1)]
    /\ UNCHANGED <<items, idx, eng, buf, tf, st, fsh, pit>>
    /\ UNCHANGED <<ui, calc>>

\* line 664: the empty transfer after the finalizer
TfFinalizeEmptyAfter ==
    /\ pc = "tf_fin_zlp2"
    /\ \E o \in EmptyOutcomes :
          /\ Sent(EmptyFrame(o), "zlp")
          /\ pc' = AfterEmptyWrite(o, "tf_fin_r")
          /\ err' = (IF pc' = "error" THEN Error("USB write failed") ELSE err)
          /\ mlog' = [mlog EXCEPT !.zlpFailed = @ \/ o = "throw"]
    /\ UNCHANGED <<items, idx, eng, buf, tf, st, fsh, pit, sess>>
    /\ UNCHANGED <<ui, calc>>

\* lines 671-699: the finalizer reply, then the next turn of the chunk loop
TfFinalizeReply ==
    /\ pc = "tf_fin_r"
    /\ \E r \in ReadOutcomes :
       /\ DidRead(r)
       /\ LET t == [tf EXCEPT !.offset = @ + tf.chunkSize, !.sequenceNum = @ + 1]
              r2 == IF ~Rejects(r) /\ r.len >= 8
                    THEN IF r.cmd = Refused
                         THEN Thrown(ErrorCode("Finalize rejected", r.data), tf, buf, idx)
                         ELSE IF r.cmd # 102
                         THEN Thrown(Error("Unexpected response cmd"), tf, buf, idx)
                         ELSE TfLoopHead(t, buf, idx)
                    ELSE IF tf.completionStatus = 1
                         THEN TfLoopHead(t, buf, idx)
                         ELSE Thrown(Error("No response on intermediate chunk"),
                                     tf, buf, idx)
          IN  /\ Apply(r2)
              /\ mlog' = [mlog EXCEPT !.done = (r2.pc = "ub_loop")]
    /\ UNCHANGED <<items, eng, st, fsh, pit, sess>>
    /\ UNCHANGED <<ui, calc>>

(***************************************************************************)
(* DownloadEngine.transferFileStreamingLZ4 and its flushBuffer             *)
(***************************************************************************)
StInit ==
    [sendBuffer |-> 0, allocs |-> 0, bufferPos |-> 0, totalDecompressed |-> 0,
     totalSent |-> 0, sequenceNum |-> 0, blockLen |-> 0, blockOffset |-> 0,
     delivered |-> 0, isFinal |-> FALSE, flushed |-> FALSE, offset |-> 0, blockCount |-> 0,
     blockSize |-> 0, block |-> [len |-> 0, dataLen |-> 0]]

\* lines 759-764: let sendBuffer = new Uint8Array(SEND_BUFFER_SIZE), counters at 0
StAllocate == [StInit EXCEPT !.sendBuffer = SEND_BUFFER_SIZE, !.allocs = 1]

SContinue(l, x, b, i) == [pc |-> l, err |-> NoError, st |-> x, buf |-> b, idx |-> i]
SThrown(e, x, b, i) == [pc |-> "error", err |-> e, st |-> x, buf |-> b, idx |-> i]
SApply(r) ==
    /\ pc' = r.pc
    /\ err' = (IF r.pc = "error" THEN r.err ELSE err)
    /\ st' = r.st
    /\ buf' = r.buf
    /\ idx' = r.idx

\* a variant that flushes as soon as the buffer is half full
BufferHalfFull(bufferPos) == bufferPos >= SEND_BUFFER_SIZE \div 2
CopySizeOf(bufferPos, left) == Min(SEND_BUFFER_SIZE - bufferPos, left)
BufferFull(bufferPos) == bufferPos >= SEND_BUFFER_SIZE
FlushStatusOf(isFinal) == IF isFinal THEN 1 ELSE 0

\* flushBuffer, lines 767-775: nothing to do on an empty buffer, else the
\* sequence-begin frame is built; `back` is where the caller goes on
StFlushBegin(x, b, i, isFinal, back) ==
    IF x.bufferPos = 0
    THEN back
    ELSE SContinue("st_seq_w", [x EXCEPT !.isFinal = isFinal],
                   CommandBuf(b, 102, 2, x.bufferPos), i)

\* a variant whose sink returns to the decoder after one turn of its loop
StLoopTestEager(x, b, i) == SContinue("st_decode", x, b, i)
\* the sink's while test (line 853): another turn, or back into the decoder
StLoopTest(x, b, i) ==
    SContinue(IF x.blockOffset < x.blockLen THEN "st_copy" ELSE "st_decode", x, b, i)

\* one turn of the sink's while loop, lines 854-863: copy into sendBuffer, flush
\* when full
StCopyTurn(x, b, i) ==
    LET copySize == CopySizeOf(x.bufferPos, x.blockLen - x.blockOffset)
        x2 == [x EXCEPT !.bufferPos = @ + copySize, !.blockOffset = @ + copySize]
    IN  IF BufferFull(x2.bufferPos)
        THEN StFlushBegin(x2, b, i, FALSE, StLoopTest(x2, b, i))
        ELSE StLoopTest(x2, b, i)

\* a variant that forgets to reset bufferPos
AfterFlushKeepsPos(x) ==
    [x EXCEPT !.totalSent = @ + x.bufferPos, !.sequenceNum = @ + 1, !.flushed = TRUE]
\* flushBuffer, lines 820-825: totalSent += bufferPos; bufferPos = 0; sequenceNum++
AfterFlush(x) ==
    [x EXCEPT !.totalSent = @ + x.bufferPos, !.bufferPos = 0, !.sequenceNum = @ + 1,
              !.flushed = TRUE]

\* a variant that returns without the flush of line 873
StStreamEndNoFlush(x, b, i) == SContinue("ub_loop", StInit, b, i + 1)
\* lines 872-885: after the decoder returned
StStreamEnd(x, b, i) ==
    IF x.bufferPos > 0
    THEN StFlushBegin(x, b, i, TRUE, SContinue("ub_loop", StInit, b, i + 1))
    ELSE SContinue("ub_loop", StInit, b, i + 1)

\* the head of flushBuffer's block loop (line 783) and, after it, the finalizer
StBlockHead(x, b, i, deviceType, partitionId) ==
    IF x.offset < x.bufferPos
    THEN LET blockSize == BlockSizeOf(x.bufferPos - x.offset)
             got == SliceLen(x.sendBuffer, x.offset, x.offset + blockSize)
         IN  SContinue(IF x.blockCount > 0 THEN "st_blk_zlp" ELSE "st_blk_w",
                       [x EXCEPT !.blockSize = blockSize,
                                 !.block = [len |-> PadBlock(got), dataLen |-> got]],
                       b, i)
    ELSE SContinue("st_fin_zlp1", x,
                   FinalizerBuf(b, x.bufferPos, deviceType, partitionId,
                                FlushStatusOf(x.isFinal)), i)

\* line 750: write the activation frame (102, 0, 0)
StActivate ==
    /\ pc = "st_act_w"
    /\ \E o \in WriteOutcomes :
          /\ Sent(CmdFrame(buf, eng.packetSize, o), "cmd")
          /\ IF o = "throw" THEN Raise(Error("USB write failed")) ELSE Goto("st_act_r")
    /\ UNCHANGED <<items, idx, eng, buf, tf, st, fsh, pit, mlog, sess>>
    /\ UNCHANGED <<ui, calc>>

\* lines 752-764: the activation reply, then the streaming state is set up
StActivateReply ==
    /\ pc = "st_act_r"
    /\ \E r \in ReadOutcomes :
       /\ DidRead(r)
       /\ SApply(IF Rejects(r) THEN SThrown(Error("USB read failed"), st, buf, idx)
                 ELSE IF r.len < 8
                 THEN SThrown(Error("File transfer activation timeout"), st, buf, idx)
                 ELSE IF r.cmd # 102
                 THEN SThrown(Error("File transfer activation rejected"), st, buf, idx)
                 ELSE SContinue("st_decode", StAllocate, buf, idx))
    /\ UNCHANGED <<items, eng, tf, fsh, pit, mlog, sess>>
    /\ UNCHANGED <<ui, calc>>

\* decompressStreaming: the next decoded block is handed to the sink (lines 846-851),
\* or the stream ends (EndMark, end of the member), or the decoder throws
StDecode ==
    /\ pc = "st_decode"
    /\ LET content == items[idx].content
       IN  \/ \E n \in content.lens :
                /\ st.delivered < content.maxBlocks
                /\ SApply(StLoopTest([st EXCEPT !.totalDecompressed = @ + n,
                                                !.blockLen = n, !.blockOffset = 0,
                                                !.delivered = @ + 1,
                                                !.flushed = FALSE], buf, idx))
                /\ mlog' = [mlog EXCEPT !.size = @ + n]
           \/ /\ SApply(StStreamEnd(st, buf, idx))
              /\ mlog' = [mlog EXCEPT !.done = (pc' = "ub_loop")]
           \/ /\ SApply(SThrown(Error("Streaming decompression failed"), st, buf, idx))
              /\ UNCHANGED mlog
    /\ UNCHANGED <<items, eng, tf, fsh, pit, sess>>
    /\ NoTransfer
    /\ UNCHANGED <<ui, calc>>

\* the sink's while loop going round, after a copy or after a flush
StCopy ==
    /\ pc = "st_copy"
    /\ SApply(StCopyTurn([st EXCEPT !.flushed = FALSE], buf, idx))
    /\ UNCHANGED <<items, eng, tf, fsh, pit, mlog, sess>>
    /\ NoTransfer
    /\ UNCHANGED <<ui, calc>>

\* line 775: write the sequence-begin frame (102, 2, bufferPos)
StSequenceBegin ==
    /\ pc = "st_seq_w"
    /\ \E o \in WriteOutcomes :
          LET w == CmdFrame(buf, eng.packetSize, o)
          IN  /\ Sent(w, "cmd")
              /\ IF o = "throw"
                 THEN Raise(Error("Streaming decompression failed")) /\ UNCHANGED mlog
                 ELSE /\ Goto("st_seq_r")
                      /\ mlog' = [mlog EXCEPT !.seq = Append(@, FrameArg(w, 0)),
                                               !.blocks = 0, !.bytes = 0]
    /\ UNCHANGED <<items, idx, eng, buf, tf, st, fsh, pit, sess>>
    /\ UNCHANGED <<ui, calc>>

\* lines 776-783: the sequence-begin reply is read and not looked at
StSequenceReply ==
    /\ pc = "st_seq_r"
    /\ \E r \in ReadOutcomes :
       /\ DidRead(r)
       /\ SApply(IF Rejects(r)
                 THEN SThrown(Error("Streaming decompression failed"), st, buf, idx)
                 ELSE StBlockHead([st EXCEPT !.offset = 0, !.blockCount = 0], buf, idx,
                                  tf.deviceType, tf.partitionId))
    /\ UNCHANGED <<items, eng, tf, fsh, pit, mlog, sess>>
    /\ UNCHANGED <<ui, calc>>

\* lines 794-796: the empty transfer before a block that is not the chunk's first
StBlockEmpty ==
    /\ pc = "st_blk_zlp"
    /\ \E o \in EmptyOutcomes :
          /\ Sent(EmptyFrame(o), "zlp")
          /\ pc' = AfterEmptyWrite(o, "st_blk_w")
          /\ err' = (IF pc' = "error" THEN Error("Streaming decompression failed") ELSE err)
          /\ mlog' = [mlog EXCEPT !.zlpFailed = @ \/ o = "throw"]
    /\ UNCHANGED <<items, idx, eng, buf, tf, st, fsh, pit, sess>>
    /\ UNCHANGED <<ui, calc>>

\* line 798: write the data block; the count written is not looked at
StBlockWrite ==
    /\ pc = "st_blk_w"
    /\ \E o \in WriteOutcomes :
          /\ Sent(DataFrame(st.block.len, st.totalSent + st.offset, st.block.dataLen, o),
                  "data")
          /\ IF o = "throw"
             THEN Raise(Error("Streaming decompression failed")) /\ UNCHANGED mlog
             ELSE /\ Goto("st_blk_r")
                  /\ mlog' = [mlog EXCEPT !.blocks = @ + 1, !.bytes = @ + st.block.dataLen]
    /\ UNCHANGED <<items, idx, eng, buf, tf, st, fsh, pit, sess>>
    /\ UNCHANGED <<ui, calc>>

\* lines 799-811: the block acknowledgement is read and not looked at
StBlockReply ==
    /\ pc = "st_blk_r"
    /\ \E r \in ReadOutcomes :
       /\ DidRead(r)
       /\ SApply(IF Rejects(r)
                 THEN SThrown(Error("Streaming decompression failed"), st, buf, idx)
                 ELSE StBlockHead([st EXCEPT !.offset = @ + st.blockSize,
                                             !.blockCount = @ + 1], buf, idx,
                                  tf.deviceType, tf.partitionId))
    /\ UNCHANGED <<items, eng, tf, fsh, pit, mlog, sess>>
    /\ UNCHANGED <<ui, calc>>

\* line 813: the empty transfer before the finalizer
StFinalizeEmptyBefore ==
    /\ pc = "st_fin_zlp1"
    /\ \E o \in EmptyOutcomes :
          /\ Sent(EmptyFrame(o), "zlp")
          /\ pc' = AfterEmptyWrite(o, "st_fin_w")
          /\ err' = (IF pc' = "error" THEN Error("Streaming decompression failed") ELSE err)
          /\ mlog' = [mlog EXCEPT !.zlpFailed = @ \/ o = "throw"]
    /\ UNCHANGED <<items, idx, eng, buf, tf, st, fsh, pit, sess>>
    /\ UNCHANGED <<ui, calc>>

\* line 814: write the finalizer (102, 3, ...)
StFinalize ==
    /\ pc = "st_fin_w"
    /\ \E o \in WriteOutcomes :
          LET w == CmdFrame(buf, eng.packetSize, o)
          IN  /\ Sent(w, "fin")
              /\ IF o = "throw"
                 THEN /\ Raise(Error("Streaming decompression failed"))
                      /\ UNCHANGED <<mlog, sess>>
                 ELSE /\ Goto("st_fin_zlp2")
                      /\ mlog' = [mlog EXCEPT !.fin = Append(@, FinalizerOf(w, mlog.blocks, mlog.bytes))]
                      /\ sess' = [sess EXCEPT !.finalized = @ + FrameArg(w, 1)]
    /\ UNCHANGED <<items, idx, eng, buf, tf, st, fsh, pit>>
    /\ UNCHANGED <<ui, calc>>

\* line 815: the empty transfer after the finalizer
StFinalizeEmptyAfter ==
    /\ pc = "st_fin_zlp2"
    /\ \E o \in EmptyOutcomes :
          /\ Sent(EmptyFrame(o), "zlp")
          /\ pc' = AfterEmptyWrite(o, "st_fin_r")
          /\ err' = (IF pc' = "error" THEN Error("Streaming decompression failed") ELSE err)
          /\ mlog' = [mlog EXCEPT !.zlpFailed = @ \/ o = "throw"]
    /\ UNCHANGED <<items, idx, eng, buf, tf, st, fsh, pit, sess>>
    /\ UNCHANGED <<ui, calc>>

\* lines 818-835: the finalizer reply is read and not looked at; the buffer is
\* reset, the progress callback is called, and flushBuffer returns to its caller
StFinalizeReply ==
    /\ pc = "st_fin_r"
    /\ \E r \in ReadOutcomes :
       /\ DidRead(r)
       /\ LET x == AfterFlush(st)
              r2 == IF Rejects(r)
                    THEN SThrown(Error("Streaming decompression failed"), st, buf, idx)
                    ELSE IF ProgressThrows(eng.progressCallback, TRUE)
                    THEN SThrown(Error("Streaming decompression failed"), x, buf, idx)
                    ELSE IF st.isFinal
                    THEN SContinue("ub_loop", StInit, buf, idx + 1)
                    ELSE StLoopTest(x, buf, idx)
          IN  /\ SApply(r2)
              /\ mlog' = [mlog EXCEPT !.done = (r2.pc = "ub_loop")]
    /\ UNCHANGED <<items, eng, tf, fsh, pit, sess>>
    /\ UNCHANGED <<ui, calc>>

(***************************************************************************)
(* OdinFlasher.connectDevice and DownloadEngine.handshake                  *)
(***************************************************************************)
\* let pitForMatching = null
NoPit == [src |-> "none", len |-> 0]
FshInit ==
    [isConnected |-> FALSE, usbOpen |-> FALSE, op |-> "none", result |-> "none",
     protocolVersion |-> 0, reboot |-> FALSE, pitArg |-> NULL, fwPit |-> NULL,
     totalBytes |-> Sz(0, 0),
     pitForMatching |-> NoPit]
PitInit ==
    [pitData |-> 0, offset |-> 0, pitSize |-> 0, remaining |-> 0, counter |-> 0,
     got |-> 0, retry |-> 0, maxRead |-> 0]
\* new DownloadEngine(usbDevice, verbose)
NewEngine(callback) ==
    [packetSize |-> InitPacketSize, fileTransferPacketSize |-> FileTransferPacketSize,
     protocolVersion |-> 0, progressCallback |-> callback]

\* (data >> 16) & 0xFFFF and data & 0xFFFF
VersionOf(data) == (data \div 65536) % 65536
DefaultPacketSizeOf(data) == data % 65536

\* the locals of a call that has returned or thrown are gone
NoLocals == tf' = TfInit /\ st' = StInit /\ pit' = PitInit /\ idx' = 1
\* the flasher as a new call of `op` finds it: the arguments and locals of the
\* last flash() are gone as well
Called(f, op) ==
    [f EXCEPT !.op = op, !.result = "none", !.pitForMatching = NoPit,
              !.reboot = FALSE, !.pitArg = NULL, !.totalBytes = Sz(0, 0)]

\* lines 68-81: find the device, open it, create the engine
ConnectFrom(at) ==
    /\ pc = at
    /\ \E found \in BOOLEAN, opened \in BOOLEAN :
          IF ~found \/ ~opened
          THEN /\ Raise(Error(IF ~found THEN "No Samsung device found"
                                        ELSE "Failed to connect to device"))
               /\ fsh' = Called(fsh, "connect")
               /\ UNCHANGED eng
          ELSE /\ Enter("hs_w")
               /\ fsh' = [Called(fsh, "connect") EXCEPT !.usbOpen = TRUE]
               /\ eng' = NewEngine("none")
    /\ StartObserving
    /\ NoLocals
    /\ buf' = ZeroBuf
    /\ UNCHANGED items
    /\ UNCHANGED <<ui, calc>>
ConnectOpen == ConnectFrom("idle")
ConnectAgain == ConnectFrom("error")

\* the bytes 'L' 'O' 'K' 'E' at the head of a reply, read as one little-endian word
LOKE == LEToNumber(<<76, 79, 75, 69>>, 0, 4)
\* what the device may answer to "ODIN": nothing, too little, other bytes, or "LOKE"
HandshakeReplies ==
    [len : {0, 3, 4, 64}, cmd : {0, LOKE}, data : {0}] \cup {ReadThrows, ReadTimesOut}

\* a variant that accepts any reply of four bytes or more
HandshakeAcceptsAnyFour(r) == ~Rejects(r) /\ r.len >= 4
\* handshake, lines 58-76: at least four bytes, and they are 'L' 'O' 'K' 'E'
HandshakeAccepts(r) == ~Rejects(r) /\ r.len >= 4 /\ r.cmd = LOKE

\* handshake, lines 47-53: write the four bytes "ODIN"
HandshakeWrite ==
    /\ pc = "hs_w"
    /\ \E o \in WriteOutcomes :
          /\ Sent(RawFrame(4, o), "raw")
          /\ IF o = "throw" \/ Written(4, o) # 4
             THEN Raise(Error("Failed handshake"))
             ELSE Goto("hs_r")
    /\ UNCHANGED <<items, idx, eng, buf, tf, st, fsh, pit, mlog, sess>>
    /\ UNCHANGED <<ui, calc>>

\* handshake, lines 58-81, then connectDevice builds the version query (100, 0, 4)
HandshakeReply ==
    /\ pc = "hs_r"
    /\ \E r \in HandshakeReplies :
       /\ DidRead(r)
       /\ IF ~HandshakeAccepts(r)
          THEN Raise(Error("Failed handshake")) /\ UNCHANGED buf
          ELSE Goto("cn_ver_w") /\ buf' = BufSet(ZeroBuf, StructPackI(<<100, 0, 4>>), 0)
    /\ UNCHANGED <<items, idx, eng, tf, st, fsh, pit, mlog, sess>>
    /\ UNCHANGED <<ui, calc>>

\* line 100: write the version query
VersionQuery ==
    /\ pc = "cn_ver_w"
    /\ \E o \in WriteOutcomes :
          /\ Sent(CmdFrame(buf, eng.packetSize, o), "cmd")
          /\ IF o = "throw" THEN Raise(Error("USB write failed")) ELSE Goto("cn_ver_r")
    /\ UNCHANGED <<items, idx, eng, buf, tf, st, fsh, pit, mlog, sess>>
    /\ UNCHANGED <<ui, calc>>

\* lines 140-147: deviceInfo is completed and isConnected set
Connected(f, version) ==
    [f EXCEPT !.isConnected = TRUE, !.protocolVersion = version, !.result = "connected",
              !.op = "none"]

\* lines 103-133: the version reply; the part-size frame (100, 5, 0x100000) is built
\* when the device announces a default packet size
VersionReply ==
    /\ pc = "cn_ver_r"
    /\ \E r \in VersionReplies :
       /\ DidRead(r)
       /\ IF Rejects(r)
          THEN Raise(Error("USB read failed")) /\ UNCHANGED <<eng, buf, fsh>>
          ELSE IF r.len < 8
          THEN /\ Raise(Error("No valid response to protocol version request"))
               /\ UNCHANGED <<eng, buf, fsh>>
          ELSE /\ eng' = [eng EXCEPT !.protocolVersion = VersionOf(r.data)]
               /\ IF DefaultPacketSizeOf(r.data) # 0
                  THEN /\ Goto("cn_ps_w")
                       /\ buf' = CommandBuf(buf, 100, 5, 1048576)
                       /\ UNCHANGED fsh
                  ELSE /\ Goto("idle")
                       /\ fsh' = Connected(fsh, VersionOf(r.data))
                       /\ UNCHANGED buf
    /\ UNCHANGED <<items, idx, tf, st, pit, mlog, sess>>
    /\ UNCHANGED <<ui, calc>>

\* line 124: write the part-size frame
PartSize ==
    /\ pc = "cn_ps_w"
    /\ \E o \in WriteOutcomes :
          /\ Sent(CmdFrame(buf, eng.packetSize, o), "cmd")
          /\ IF o = "throw" THEN Raise(Error("USB write failed")) ELSE Goto("cn_ps_r")
    /\ UNCHANGED <<items, idx, eng, buf, tf, st, fsh, pit, mlog, sess>>
    /\ UNCHANGED <<ui, calc>>

\* lines 125-147: the part-size reply
PartSizeReply ==
    /\ pc = "cn_ps_r"
    /\ \E r \in ReadOutcomes :
       /\ DidRead(r)
       /\ IF Rejects(r)
          THEN Raise(Error("USB read failed")) /\ UNCHANGED fsh
          ELSE IF r.len >= 8 /\ r.data # 0
          THEN Raise(Error("Device rejected file part size")) /\ UNCHANGED fsh
          ELSE Goto("idle") /\ fsh' = Connected(fsh, eng.protocolVersion)
    /\ UNCHANGED <<items, idx, eng, buf, tf, st, pit, mlog, sess>>
    /\ UNCHANGED <<ui, calc>>

(***************************************************************************)
(* OdinFlasher.flash                                                       *)
(***************************************************************************)
\* lines 229-253: what one item adds to totalBytes
DeclaredBytes(item) ==
    IF Includes(item.filename, StrMetaData) \/ EndsWith(item.filename, SufZip)
    THEN Sz(0, 0)
    ELSE IF item.data = NULL /\ item.info.isLargeFile
    THEN IF EndsWith(item.filename, SufLz4) THEN SzTimes(item.info.actualSize, 4)
         ELSE IF EndsWith(item.filename, SufGz) THEN SzTimes(item.info.actualSize, 3)
         ELSE item.info.actualSize
    ELSE IF item.data # NULL THEN SzOfBytes(item.data)
    ELSE Sz(0, 0)
RECURSIVE TotalBytes(_)
TotalBytes(its) ==
    IF its = <<>> THEN Sz(0, 0) ELSE SzAdd(DeclaredBytes(Head(its)), TotalBytes(Tail(its)))

\* new Uint8Array(1024); set(structPack('<II', 100, 2), 0); set(structPack('<Q', total), 8)
SessionOpenBuf(totalBytes) ==
    BufSet(BufSet(ZeroBuf, StructPackI(<<100, 2>>), 0), StructPackQ(totalBytes), 8)

\* lines 200-266: the guards, the progress callback, totalBytes, the (100, 2) frame
FlashFrom(at) ==
    /\ pc = at
    /\ StartObserving
    /\ NoLocals
    /\ IF ~fsh.isConnected
       THEN /\ Raise(Error("Not connected to device"))
            /\ fsh' = Called(fsh, "flash")
            /\ buf' = ZeroBuf
            /\ UNCHANGED eng
       ELSE \E reboot \in BOOLEAN, callback \in {"none", "throws"}, pitArg \in PitArgs :
               LET totalBytes == TotalBytes(items)
               IN  /\ Enter("fl_open_w")
                   /\ fsh' = [fsh EXCEPT !.op = "flash", !.result = "none",
                                         !.reboot = reboot, !.pitArg = pitArg,
                                         !.totalBytes = totalBytes,
                                         !.pitForMatching = NoPit]
                   /\ eng' = [eng EXCEPT !.progressCallback =
                                 IF callback = "none" THEN @ ELSE callback]
                   /\ buf' = SessionOpenBuf(totalBytes)
    /\ UNCHANGED items
    /\ UNCHANGED <<ui, calc>>
FlashStart == FlashFrom("idle")
FlashAgain == FlashFrom("error")

\* line 269: write the session-open frame (100, 2, totalBytes)
SessionOpen ==
    /\ pc = "fl_open_w"
    /\ \E o \in WriteOutcomes :
          LET w == CmdFrame(buf, eng.packetSize, o)
          IN  /\ Sent(w, "cmd")
              /\ IF o = "throw"
                 THEN Raise(Error("USB write failed")) /\ UNCHANGED sess
                 ELSE Goto("fl_open_r") /\ sess' = [sess EXCEPT !.declared = UnpackQ(w.head, 8)]
    /\ UNCHANGED <<items, idx, eng, buf, tf, st, fsh, pit, mlog>>
    /\ UNCHANGED <<ui, calc>>

\* this.deviceInfo?.protocolVersion || 2
FlashProtocolVersion(f) == IF f.protocolVersion = 0 THEN 2 ELSE f.protocolVersion

\* sendPitData, lines 116-131: the first chunk of the PIT, or the reply read at once
\* for an empty PIT
PitUploadBegin(length) == [PitInit EXCEPT !.pitData = length]
\* receivePitData, lines 158-159: the size request (101, 1, 0)
PitRequestBuf == BufSet(ZeroBuf, StructPackI(<<101, 1, 0>>), 0)

\* lines 271-331: the session-open reply and the choice of the PIT path
\* a variant that looks at the echoed command only
SessionAcceptedAnyResult(r) == r.cmd = 100
\* lines 274-276: respCmd !== 100 || respData !== 0 is a rejection
SessionAccepted(r) == r.cmd = 100 /\ r.data = 0

SessionOpenReply ==
    /\ pc = "fl_open_r"
    /\ \E r \in ReadOutcomes :
       /\ DidRead(r)
       /\ sess' = [sess EXCEPT !.opened = ~Rejects(r)]
       /\ IF Rejects(r)
          THEN Raise(Error("USB read failed")) /\ UNCHANGED <<fsh, pit, buf, idx>>
          ELSE IF r.len < 8
          THEN Raise(Error("No response to 100/2 packet")) /\ UNCHANGED <<fsh, pit, buf, idx>>
          ELSE IF ~SessionAccepted(r)
          THEN Raise(Error("Device rejected 100/2")) /\ UNCHANGED <<fsh, pit, buf, idx>>
          ELSE LET send == IF fsh.pitArg # NULL THEN fsh.pitArg ELSE fsh.fwPit
               IN  IF send # NULL
                   THEN /\ Goto(IF send > 0 THEN "pu_w" ELSE "pu_r")
                        /\ pit' = PitUploadBegin(send)
                        /\ UNCHANGED <<fsh, buf, idx>>
                   ELSE IF FlashProtocolVersion(fsh) <= 3
                   THEN /\ Goto("pr_req_w")
                        /\ pit' = PitInit
                        /\ buf' = PitRequestBuf
                        /\ UNCHANGED <<fsh, idx>>
                   ELSE /\ Goto("ub_match")
                        /\ UNCHANGED <<fsh, pit, buf, idx>>
    /\ UNCHANGED <<items, eng, tf, st, mlog>>
    /\ UNCHANGED <<ui, calc>>

(***************************************************************************)
(* DownloadEngine.sendPitData                                              *)
(***************************************************************************)
PitChunkSize == 1024 * 1024

\* line 127: write the next chunk of the PIT
PitUploadWrite ==
    /\ pc = "pu_w"
    /\ \E o \in WriteOutcomes :
          LET end == Min(pit.offset + PitChunkSize, pit.pitData)
          IN  /\ Sent(RawFrame(end - pit.offset, o), "raw")
              /\ IF o = "throw"
                 THEN Raise(Error("Failed to send PIT data")) /\ UNCHANGED pit
                 ELSE /\ Goto(IF end < pit.pitData THEN "pu_w" ELSE "pu_r")
                      /\ pit' = [pit EXCEPT !.offset = end]
    /\ UNCHANGED <<items, idx, eng, buf, tf, st, fsh, mlog, sess>>
    /\ UNCHANGED <<ui, calc>>

\* a variant that prefers the firmware's embedded PIT to the pitData argument
UploadedEmbeddedFirst(f) ==
    [f EXCEPT !.pitForMatching =
        [src |-> IF f.fwPit # NULL THEN "embedded" ELSE "arg",
         len |-> IF f.fwPit # NULL THEN f.fwPit ELSE f.pitArg]]
\* the PIT that was uploaded becomes pitForMatching (flash, lines 296 and 302)
Uploaded(f) ==
    [f EXCEPT !.pitForMatching =
        [src |-> IF f.pitArg # NULL THEN "arg" ELSE "embedded",
         len |-> IF f.pitArg # NULL THEN f.pitArg ELSE f.fwPit]]

\* sendPitData, lines 134-145, then flash goes on to receivePitData or uploadBinaries
PitUploadReply ==
    /\ pc = "pu_r"
    /\ \E r \in ReadOutcomes :
       /\ DidRead(r)
       /\ IF Rejects(r) \/ (r.len >= 8 /\ r.data # 0)
          THEN Raise(Error("Failed to send PIT data")) /\ UNCHANGED <<fsh, pit, buf>>
          ELSE /\ fsh' = Uploaded(fsh)
               /\ pit' = PitInit
               /\ IF FlashProtocolVersion(fsh) <= 3
                  THEN Goto("pr_req_w") /\ buf' = PitRequestBuf
                  ELSE Goto("ub_match") /\ UNCHANGED buf
    /\ UNCHANGED <<items, idx, eng, tf, st, mlog, sess>>
    /\ UNCHANGED <<ui, calc>>

(***************************************************************************)
(* DownloadEngine.receivePitData                                           *)
(***************************************************************************)
PitReadChunk == 500
PitSizeLimit == 1048576

\* line 161: write the size request (101, 1, 0)
PitRequest ==
    /\ pc = "pr_req_w"
    /\ \E o \in WriteOutcomes :
          /\ Sent(CmdFrame(buf, eng.packetSize, o), "cmd")
          /\ IF o = "throw" THEN Raise(Error("USB write failed")) ELSE Goto("pr_req_r")
    /\ UNCHANGED <<items, idx, eng, buf, tf, st, fsh, pit, mlog, sess>>
    /\ UNCHANGED <<ui, calc>>

\* the head of the read loop (line 195): the next (101, 2, counter) frame, or the
\* end frame (101, 3, 0) once nothing remains
PitLoopHead(q, b) ==
    IF q.remaining > 0
    THEN [pc |-> "pr_chunk_w", pit |-> q, buf |-> CommandBuf(b, 101, 2, q.counter)]
    ELSE [pc |-> "pr_end_w", pit |-> q, buf |-> CommandBuf(b, 101, 3, 0)]

\* lines 164-193: the size reply, read at most twice, and the sanity check
PitRequestReply ==
    /\ pc = "pr_req_r"
    /\ \E r \in ReadOutcomes, size \in PitSizes :
       /\ DidRead(r)
       /\ IF Rejects(r)
          THEN Raise(Error("USB read failed")) /\ UNCHANGED <<pit, buf>>
          ELSE IF r.len < 8
          THEN IF pit.retry + 1 < 2
               THEN Goto("pr_req_r") /\ pit' = [pit EXCEPT !.retry = @ + 1] /\ UNCHANGED buf
               ELSE Raise(Error("PIT request timeout")) /\ UNCHANGED <<pit, buf>>
          ELSE IF r.cmd # 101
          THEN Raise(Error("PIT cmd unexpected")) /\ UNCHANGED <<pit, buf>>
          ELSE IF size = 0 \/ size > PitSizeLimit
          THEN Raise(Error("Invalid PIT size")) /\ UNCHANGED <<pit, buf>>
          ELSE LET h == PitLoopHead([pit EXCEPT !.pitSize = size, !.remaining = size,
                                               !.counter = 0, !.got = 0], buf)
               IN  Goto(h.pc) /\ pit' = h.pit /\ buf' = h.buf
    /\ UNCHANGED <<items, idx, eng, tf, st, fsh, mlog, sess>>
    /\ UNCHANGED <<ui, calc>>

\* line 199: write the read request (101, 2, counter)
PitChunkRequest ==
    /\ pc = "pr_chunk_w"
    /\ \E o \in WriteOutcomes :
          /\ Sent(CmdFrame(buf, eng.packetSize, o), "cmd")
          /\ IF o = "throw" THEN Raise(Error("USB write failed")) ELSE Goto("pr_chunk_r")
    /\ UNCHANGED <<items, idx, eng, buf, tf, st, fsh, pit, mlog, sess>>
    /\ UNCHANGED <<ui, calc>>

\* lines 202-221: read a chunk of at most 500 bytes; an empty chunk ends the loop
PitChunkReply ==
    /\ pc = "pr_chunk_r"
    /\ LET readSize == Min(PitReadChunk, pit.remaining)
       IN  \E n \in {NULL, 0, readSize - 1, readSize}, timeout \in BOOLEAN :
             /\ DidRead(IF n # NULL THEN [len |-> n, cmd |-> 0, data |-> 0]
                        ELSE IF timeout THEN ReadTimesOut ELSE ReadThrows)
             /\ IF n = NULL
                THEN Raise(Error("USB read failed")) /\ UNCHANGED <<pit, buf>>
                ELSE IF n = 0
                THEN /\ Goto("pr_end_w")
                     /\ buf' = CommandBuf(buf, 101, 3, 0)
                     /\ UNCHANGED pit
                ELSE LET h == PitLoopHead([pit EXCEPT !.remaining = @ - n, !.got = @ + n,
                                                     !.counter = @ + 1,
                                                     !.maxRead = IF n > @ THEN n ELSE @], buf)
                     IN  Goto(h.pc) /\ pit' = h.pit /\ buf' = h.buf
    /\ UNCHANGED <<items, idx, eng, tf, st, fsh, mlog, sess>>
    /\ UNCHANGED <<ui, calc>>

\* line 221: write the end frame (101, 3, 0)
PitEnd ==
    /\ pc = "pr_end_w"
    /\ \E o \in WriteOutcomes :
          /\ Sent(CmdFrame(buf, eng.packetSize, o), "cmd")
          /\ IF o = "throw" THEN Raise(Error("USB write failed")) ELSE Goto("pr_end_r")
    /\ UNCHANGED <<items, idx, eng, buf, tf, st, fsh, pit, mlog, sess>>
    /\ UNCHANGED <<ui, calc>>

\* lines 222-232: the trailing reply, then the PIT is returned to flash or dumpPit
PitEndReply ==
    /\ pc = "pr_end_r"
    /\ \E r \in ReadOutcomes :
       /\ DidRead(r)
       /\ IF Rejects(r)
          THEN Raise(Error("USB read failed")) /\ UNCHANGED <<fsh, pit>>
          ELSE IF fsh.op = "dumpPit"
          THEN /\ Goto("idle")
               /\ pit' = PitInit
               /\ fsh' = [fsh EXCEPT !.result = "pit", !.op = "none",
                                     !.pitForMatching = [src |-> "device", len |-> pit.got]]
          ELSE /\ Goto("ub_match")
               /\ pit' = PitInit
               /\ fsh' = [fsh EXCEPT !.pitForMatching = [src |-> "device", len |-> pit.got]]
    /\ UNCHANGED <<items, idx, eng, buf, tf, st, mlog, sess>>
    /\ UNCHANGED <<ui, calc>>

\* dumpPit, lines 375-391
DumpPitFrom(at) ==
    /\ pc = at
    /\ IF ~fsh.isConnected
       THEN /\ Raise(Error("Not connected to device"))
            /\ fsh' = Called(fsh, "dumpPit")
            /\ buf' = ZeroBuf
       ELSE /\ Enter("pr_req_w")
            /\ fsh' = Called(fsh, "dumpPit")
            /\ buf' = PitRequestBuf
    /\ StartObserving
    /\ NoLocals
    /\ UNCHANGED <<items, eng>>
    /\ UNCHANGED <<ui, calc>>
DumpPitStart == DumpPitFrom("idle")
DumpPitAgain == DumpPitFrom("error")

(***************************************************************************)
(* DownloadEngine.uploadBinaries: partition matching, closeConnection,     *)
(* rebootDevice                                                            *)
(***************************************************************************)
\* lines 284-304: partition and device type from the file name, without a PIT
StrBoot == <<"b", "o", "o", "t">>
StrRecovery == <<"r", "e", "c", "o", "v", "e", "r", "y">>
StrSboot == <<"s", "b", "o", "o", "t">>
StrBl == <<"b", "l">>
StrBootloader == <<"b", "o", "o", "t", "l", "o", "a", "d", "e", "r">>
StrModem == <<"m", "o", "d", "e", "m">>
StrRadio == <<"r", "a", "d", "i", "o">>
StrCp == <<"c", "p">>
StartsWith(s, pre) == Len(pre) <= Len(s) /\ SubSeq(s, 1, Len(pre)) = pre
WithPartition(item, id, type) ==
    [item EXCEPT !.info.partition_id = id, !.info.device_type = type]
\* String.toLowerCase on the letters of file and partition names
UpperCase == <<"A", "B", "C", "D", "E", "F", "G", "H", "I", "J", "K", "L", "M", "N", "O", "P", "Q", "R", "S", "T", "U", "V", "W", "X", "Y", "Z">>
LowerCase == <<"a", "b", "c", "d", "e", "f", "g", "h", "i", "j", "k", "l", "m", "n", "o", "p", "q", "r", "s", "t", "u", "v", "w", "x", "y", "z">>
ToLowerChar(c) ==
    IF \E i \in 1..Len(UpperCase) : UpperCase[i] = c
    THEN LowerCase[CHOOSE i \in 1..Len(UpperCase) : UpperCase[i] = c]
    ELSE c
ToLowerCase(s) == [i \in 1..Len(s) |-> ToLowerChar(s[i])]
\* String.indexOf, 1-based; 0 when `pat` does not occur
IndexOf(s, pat) ==
    LET at == {i \in 1..(Len(s) - Len(pat) + 1) : SubSeq(s, i, i + Len(pat) - 1) = pat}
    IN  IF at = {} THEN 0 ELSE CHOOSE i \in at : \A j \in at : i <= j
\* String.replace with a string pattern: the first occurrence only
Replace(s, pat, by) ==
    LET i == IndexOf(s, pat)
    IN  IF i = 0 THEN s
        ELSE SubSeq(s, 1, i - 1) \o by \o SubSeq(s, i + Len(pat), Len(s))
\* the same with every occurrence replaced, left to right
RECURSIVE ReplaceEvery(_, _, _)
ReplaceEvery(s, pat, by) ==
    LET i == IndexOf(s, pat)
    IN  IF i = 0 THEN s
        ELSE SubSeq(s, 1, i - 1) \o by \o
             ReplaceEvery(SubSeq(s, i + Len(pat), Len(s)), pat, by)
SufImg == <<".", "i", "m", "g">>
SufBin == <<".", "b", "i", "n">>
Hyphen == <<"-">>
Underscore == <<"_">>
\* line 254: fnameBase
FnameBase(fname) ==
    Replace(Replace(Replace(Replace(fname, SufLz4, <<>>), SufGz, <<>>), SufImg, <<>>),
            SufBin, <<>>)
\* line 260: flashNameBase
FlashNameBase(flashName) == Replace(Replace(flashName, SufImg, <<>>), SufBin, <<>>)
\* lines 263-265: the first three tests of one PIT entry
EntryMatchesByName(fname, entry) ==
    LET fnameBase == FnameBase(fname)
        flashName == ToLowerCase(entry.flashFilename)
    IN  \/ fname = flashName
        \/ fnameBase = FlashNameBase(flashName)
        \/ fnameBase = ToLowerCase(entry.partitionName)
FirstHyphen(s) == Replace(s, Hyphen, Underscore)
EveryHyphen(s) == ReplaceEvery(s, Hyphen, Underscore)
\* lines 263-266: the four tests of one PIT entry
EntryMatches(fname, entry) ==
    \/ EntryMatchesByName(fname, entry)
    \/ FirstHyphen(FnameBase(fname)) = FirstHyphen(ToLowerCase(entry.partitionName))
\* the least index of a set of indices, 0 when it is empty
FirstOf(hits) == IF hits = {} THEN 0 ELSE CHOOSE k \in hits : \A j \in hits : k <= j
\* lines 257-272: the first entry of the table that matches, 0 when none does
FirstMatch(fname, entries) ==
    FirstOf({k \in 1..Len(entries) : EntryMatches(fname, entries[k])})
\* lines 252-280, for one item and the entries of the parsed PIT
MatchItem(item, entries) ==
    LET k == FirstMatch(ToLowerCase(item.filename), entries)
    IN  IF k = 0
        THEN [item EXCEPT !.info.device_type = IF @ \in {NULL, 0} THEN 2 ELSE @]
        ELSE WithPartition(item, entries[k].partitionId, entries[k].deviceType)
DetectFromName(item) ==
    LET fname == ToLowerCase(item.filename)
    IN  IF Includes(fname, StrBoot) /\ ~Includes(fname, StrRecovery)
        THEN WithPartition(item, 3, 2)
        ELSE IF Includes(fname, StrRecovery) THEN WithPartition(item, 10, 2)
        ELSE IF Includes(fname, StrSboot) \/ StartsWith(fname, StrBl)
                \/ Includes(fname, StrBootloader)
        THEN WithPartition(item, 80, 2)
        ELSE IF Includes(fname, StrModem) \/ Includes(fname, StrRadio)
                \/ Includes(fname, StrCp)
        THEN WithPartition(item, 11, 2)
        ELSE WithPartition(item,
                 IF item.info.partition_id \in {NULL, 0} THEN 0 ELSE item.info.partition_id,
                 IF item.info.device_type \in {NULL, 0} THEN 2 ELSE item.info.device_type)

\* lines 252-280: with a PIT, an item takes the ids of the entry it matches, or keeps
\* its own with device type 2 by default.  Which entry matches is decided by the PIT's
\* contents; here the outcome is the environment's: no match, or the entry `m`.
MatchOutcomes == {NULL, 5}
\* a variant without the default of line 277
MatchFromPitNoDefault(item, m) == IF m = NULL THEN item ELSE WithPartition(item, m, 2)
MatchFromPit(item, m) ==
    IF m = NULL
    THEN [item EXCEPT !.info.device_type = IF @ \in {NULL, 0} THEN 2 ELSE @]
    ELSE WithPartition(item, m, 2)

\* lines 245-306: the PIT is parsed (it may be rejected) and every item gets its ids
UploadBinariesMatch ==
    /\ pc = "ub_match"
    /\ IF fsh.pitForMatching # NoPit
       THEN \E valid \in BOOLEAN, m \in [1..Len(items) -> MatchOutcomes] :
              IF ~valid
              THEN Raise(Error("Invalid PIT")) /\ UNCHANGED <<items, idx>>
              ELSE /\ Goto("ub_loop")
                   /\ items' = [i \in 1..Len(items) |-> MatchFromPit(items[i], m[i])]
                   /\ idx' = 1
       ELSE /\ Goto("ub_loop")
            /\ items' = [i \in 1..Len(items) |-> DetectFromName(items[i])]
            /\ idx' = 1
    /\ UNCHANGED <<eng, buf, tf, st, fsh, pit, mlog, sess>>
    /\ NoTransfer
    /\ UNCHANGED <<ui, calc>>

\* closeConnection, lines 909-912: write the end-session frame (103, 0, 0)
CloseWrite ==
    /\ pc = "fl_close_w"
    /\ \E o \in WriteOutcomes :
          /\ buf' = BufSet(ZeroBuf, StructPackI(<<103, 0, 0>>), 0)
          /\ Sent(CmdFrame(buf', eng.packetSize, o), "cmd")
          /\ IF o = "throw"
             THEN Goto(IF fsh.reboot THEN "fl_reboot_w" ELSE "fl_done")
             ELSE Goto("fl_close_r")
    /\ UNCHANGED <<items, idx, eng, tf, st, fsh, pit, mlog, sess>>
    /\ UNCHANGED <<ui, calc>>

\* a variant without the try/catch of closeConnection and of flash: a failed read
\* of the reply ends the flash
CloseReplyUnguarded ==
    /\ pc = "fl_close_r"
    /\ \E r \in ReadOutcomes :
       /\ DidRead(r)
       /\ IF Rejects(r) THEN Raise(Error("USB read failed"))
          ELSE Goto(IF fsh.reboot THEN "fl_reboot_w" ELSE "fl_done")
    /\ UNCHANGED <<items, idx, eng, buf, tf, st, fsh, pit, mlog, sess>>
    /\ UNCHANGED <<ui, calc>>
\* closeConnection, lines 915-920: the reply; a failed read is only logged
CloseReply ==
    /\ pc = "fl_close_r"
    /\ \E r \in ReadOutcomes :
       /\ DidRead(r)
       /\ Goto(IF fsh.reboot THEN "fl_reboot_w" ELSE "fl_done")
    /\ UNCHANGED <<items, idx, eng, buf, tf, st, fsh, pit, mlog, sess>>
    /\ UNCHANGED <<ui, calc>>

\* rebootDevice, lines 931-941: write the reboot frame (103, 1, 0)
RebootWrite ==
    /\ pc = "fl_reboot_w"
    /\ \E o \in WriteOutcomes :
          /\ buf' = BufSet(ZeroBuf, StructPackI(<<103, 1, 0>>), 0)
          /\ Sent(CmdFrame(buf', eng.packetSize, o), "cmd")
          /\ Goto("fl_done")
    /\ UNCHANGED <<items, idx, eng, tf, st, fsh, pit, mlog, sess>>
    /\ UNCHANGED <<ui, calc>>

\* flash, line 364: return true
FlashReturn ==
    /\ pc = "fl_done"
    /\ Goto("idle")
    /\ fsh' = [fsh EXCEPT !.result = "flashed", !.op = "none", !.reboot = FALSE,
                          !.pitArg = NULL, !.pitForMatching = NoPit,
                          !.totalBytes = Sz(0, 0)]
    /\ idx' = 1
    /\ UNCHANGED <<items, eng, buf, tf, st, pit, mlog, sess>>
    /\ NoTransfer
    /\ UNCHANGED <<ui, calc>>

(***************************************************************************)
(* Firmware items as the page's TAR readers build them                     *)
(***************************************************************************)
\* what the decompressors make of a member: `plain` is the length pako.inflate or
\* lz4.decode returns (NULL: it throws); `lens` are the lengths of the blocks the
\* streaming decoder may hand to its sink, at most `maxBlocks` of them
\* `fileLen` is the size of the File behind info.fileHandle (NULL: the file holds
\* every byte the item's offset and size name)
Content(plain, lens, maxBlocks) ==
    [plain |-> plain, lens |-> lens, maxBlocks |-> maxBlocks, fileLen |-> NULL]
NoContent == Content(NULL, {}, 0)
IsCompressedName(filename) == EndsWith(filename, SufLz4) \/ EndsWith(filename, SufGz)

\* app.js, in-memory TAR: new FirmwareItem(filename, fileData, {...isLargeFile: false})
PreLoaded(filename, size, content) ==
    [filename |-> filename, data |-> size,
     info |-> [size |-> SzOfBytes(size), compression_type |-> "none",
               is_compressed |-> IsCompressedName(filename), isLargeFile |-> FALSE,
               fileHandle |-> FALSE, fileOffset |-> 512, actualSize |-> SzOfBytes(size),
               partition_id |-> NULL, device_type |-> NULL],
     content |-> content]

\* app.js, parseSingleTarFile: new FirmwareItem(filename, null, {...isLargeFile: true})
OnDemand(filename, size, content) ==
    [filename |-> filename, data |-> NULL,
     info |-> [size |-> size, compression_type |-> "none",
               is_compressed |-> IsCompressedName(filename), isLargeFile |-> TRUE,
               fileHandle |-> TRUE, fileOffset |-> 512, actualSize |-> size,
               partition_id |-> NULL, device_type |-> NULL],
     content |-> content]

(***************************************************************************)
(* The page (app.js): its handlers run to their first await, and resume    *)
(* when the awaited call settles. A button that is disabled dispatches no  *)
(* click.                                                                  *)
(***************************************************************************)
\* calls of one kind the page may be awaiting at once
MaxFlashes == 2
MaxLoads == 3
MaxConnects == 2
\* app.js lines 7-11; the buttons as the handlers leave them when nothing runs
UiInit ==
    [isFlashing |-> FALSE, isConnected |-> FALSE, currentFirmware |-> FALSE,
     flashDisabled |-> TRUE, stopDisabled |-> TRUE, connectDisabled |-> FALSE,
     connects |-> 0, loads |-> 0, flashes |-> 0, stopRequested |-> FALSE]

\* connectDevice, lines 180-197: up to `await flasher.connectDevice()`
ClickConnect ==
    /\ ~ui.connectDisabled
    /\ ui.connects < MaxConnects
    /\ ui' = [ui EXCEPT !.connectDisabled = TRUE, !.connects = @ + 1]
    /\ UNCHANGED <<session, calc>>
\* connectDevice, lines 199-221: flasher.connectDevice() has returned or thrown
ConnectSettles ==
    /\ ui.connects > 0
    /\ \E ok \in BOOLEAN :
          ui' = IF ok
                THEN [ui EXCEPT !.connects = @ - 1, !.isConnected = TRUE,
                                !.flashDisabled = IF ui.currentFirmware THEN FALSE ELSE @]
                ELSE [ui EXCEPT !.connects = @ - 1, !.connectDisabled = FALSE]
    /\ UNCHANGED <<session, calc>>
\* handleFirmwareSelect (229-258), loadSelectedPartitions (49-76) and the drop
\* handler: a load is started whatever else is running
SelectFirmware ==
    /\ ui.loads < MaxLoads
    /\ ui' = [ui EXCEPT !.loads = @ + 1]
    /\ UNCHANGED <<session, calc>>
\* handleMultipleFirmwareFiles, lines 259-339: the files are parsed, or parsing throws
LoadSettles ==
    /\ ui.loads > 0
    /\ \E ok \in BOOLEAN :
          ui' = IF ok
                THEN [ui EXCEPT !.loads = @ - 1, !.currentFirmware = TRUE,
                                !.flashDisabled = IF ui.isConnected THEN FALSE ELSE @]
                ELSE [ui EXCEPT !.loads = @ - 1]
    /\ UNCHANGED <<session, calc>>
\* a variant of startFlash that returns when a flash is running
StartFlashGuarded(u, confirmed) ==
    IF ~u.isConnected \/ ~u.currentFirmware \/ ~confirmed \/ u.isFlashing THEN u
    ELSE [u EXCEPT !.isFlashing = TRUE, !.flashDisabled = TRUE, !.stopDisabled = FALSE,
                   !.connectDisabled = TRUE, !.flashes = @ + 1]
\* startFlash, lines 1749-1790: the guards, confirm(), then up to
\* `await flasher.flash(...)`
StartFlash(u, confirmed) ==
    IF ~u.isConnected \/ ~u.currentFirmware \/ ~confirmed THEN u
    ELSE [u EXCEPT !.isFlashing = TRUE, !.flashDisabled = TRUE, !.stopDisabled = FALSE,
                   !.connectDisabled = TRUE, !.flashes = @ + 1]
ClickFlash ==
    /\ ~ui.flashDisabled
    /\ ui.flashes < MaxFlashes
    /\ \E confirmed \in BOOLEAN : ui' = StartFlash(ui, confirmed)
    /\ UNCHANGED <<session, calc>>
\* startFlash, lines 1799-1821: flasher.flash() has returned or thrown; `finally`
FlashSettles ==
    /\ ui.flashes > 0
    /\ ui' = [ui EXCEPT !.flashes = @ - 1, !.isFlashing = FALSE, !.flashDisabled = FALSE,
                        !.stopDisabled = TRUE, !.connectDisabled = FALSE]
    /\ UNCHANGED <<session, calc>>
\* stopFlash, lines 1827-1836: it returns unless isFlashing, asks confirm(), then
\* logs and shows a message. It assigns nothing; `stopRequested` is the
\* observer's note that the dialog was confirmed, which no code reads
ClickStop ==
    /\ ~ui.stopDisabled
    /\ ui.isFlashing
    /\ \E confirmed \in BOOLEAN : ui' = [ui EXCEPT !.stopRequested = @ \/ confirmed]
    /\ UNCHANGED <<session, calc>>

\* the firmware packages of a whole session: small members of every kind
SmallBlocks == {1, FileTransferPacketSize}
MaxSmallBlocks == 2
Firmwares ==
    { <<PreLoaded(NameBootImg, FileTransferPacketSize + 1, NoContent),
        PreLoaded(NameMeta, 3, NoContent)>>,
      <<PreLoaded(NameBootLz4, 10, Content(FileTransferPacketSize, {}, 0))>>,
      <<OnDemand(NameModemGz, Sz(0, 10), Content(5, {}, 0)),
        PreLoaded(NameHomeZip, 7, NoContent)>>,
      <<OnDemand(NameSuperLz4, Sz(4, 1), Content(NULL, SmallBlocks, MaxSmallBlocks))>>,
      <<OnDemand(NameBootImg, Sz(0, 2 * FileTransferPacketSize), NoContent),
        PreLoaded(NameBootImg, 0, NoContent)>> }

\* downloadEngine = null
NoEngine ==
    [packetSize |-> NULL, fileTransferPacketSize |-> NULL, protocolVersion |-> 0,
     progressCallback |-> "none"]

InitSession(firmwares, u) ==
    /\ pc = "idle"
    /\ err = NoError
    /\ items \in firmwares
    /\ idx = 1
    /\ eng = NoEngine
    /\ buf = ZeroBuf
    /\ tf = TfInit
    /\ st = StInit
    /\ \E fwPit \in EmbeddedPits : fsh = [FshInit EXCEPT !.fwPit = fwPit]
    /\ pit = PitInit
    /\ lastWrite = NoFrame
    /\ ops = <<>>
    /\ mlog = NoMemberLog
    /\ sess = NoSession
    /\ usb = u
InitWith(firmwares, u) == InitSession(firmwares, u) /\ ui = UiInit /\ calc = NoCalc
Init == InitWith(Firmwares, NoUsb)

Connect ==
    \/ ConnectOpen \/ HandshakeWrite \/ HandshakeReply
    \/ VersionQuery \/ VersionReply \/ PartSize \/ PartSizeReply
PitTransfer ==
    \/ PitUploadWrite \/ PitUploadReply
    \/ PitRequest \/ PitRequestReply \/ PitChunkRequest \/ PitChunkReply
    \/ PitEnd \/ PitEndReply
TransferFile ==
    \/ TransferFileEntry \/ TfActivate \/ TfActivateReply
    \/ TfSequenceBegin \/ TfSequenceReply
    \/ TfBlockEmpty \/ TfBlockWrite \/ TfBlockReply
    \/ TfFinalizeEmptyBefore \/ TfFinalize \/ TfFinalizeEmptyAfter \/ TfFinalizeReply
TransferFileStreamingLZ4 ==
    \/ StActivate \/ StActivateReply \/ StDecode \/ StCopy
    \/ StSequenceBegin \/ StSequenceReply
    \/ StBlockEmpty \/ StBlockWrite \/ StBlockReply
    \/ StFinalizeEmptyBefore \/ StFinalize \/ StFinalizeEmptyAfter \/ StFinalizeReply
Upload ==
    \/ UploadBinariesLoop \/ TransferFile \/ TransferFileStreamingLZ4
    \/ CloseWrite \/ CloseReply \/ RebootWrite \/ FlashReturn

Next ==
    \/ Connect
    \/ FlashStart \/ SessionOpen \/ SessionOpenReply
    \/ DumpPitStart
    \/ PitTransfer
    \/ UploadBinariesMatch
    \/ Upload

Spec == Init /\ [][Next]_vars

(***************************************************************************)
(* The upload phase alone, on members large enough to need several         *)
(* sequences: the session of a protocol-4 device without a PIT, taken up   *)
(* right after the session-open reply.                                     *)
(***************************************************************************)
MaxFullChunks == 2
\* member sizes around the block size and around 1..MaxFullChunks full sequences,
\* and the 200 MiB member
TransferSizes ==
    {1, FileTransferPacketSize, FileTransferPacketSize + 1, 200 * MiB}
    \cup {k * MAX_CHUNK_SIZE : k \in 1..MaxFullChunks}
    \cup {k * MAX_CHUNK_SIZE + 1 : k \in 1..(MaxFullChunks - 1)}
\* LZ4 frames of 4 MiB blocks, of 2 MiB and 4 MiB blocks, and of short blocks
MaxStreamBlocks == 16
MaxMixedBlocks == 8
StreamContents ==
    { Content(NULL, {4 * MiB}, MaxStreamBlocks),
      Content(NULL, {2 * MiB, 4 * MiB}, MaxMixedBlocks),
      Content(NULL, SmallBlocks, MaxSmallBlocks) }
UploadFirmwares ==
    {<<PreLoaded(NameBootImg, s, NoContent)>> : s \in TransferSizes}
    \cup {<<OnDemand(NameBootImg, SzOfBytes(s), NoContent)>> :
             s \in {0, FileTransferPacketSize + 1}}
    \cup {<<OnDemand(NameSuperLz4, Sz(4, 1), c)>> : c \in StreamContents}
    \cup {<<PreLoaded(NameBootLz4, 10, Content(2 * FileTransferPacketSize, {}, 0)),
            OnDemand(NameModemGz, Sz(0, 10), Content(FileTransferPacketSize - 1, {}, 0))>>}

InitUploadAt(firmwares, u, page) ==
    /\ pc = "ub_match"
    /\ err = NoError
    /\ items \in firmwares
    /\ idx = 1
    /\ \E callback \in {"none", "throws"} :
          eng = [NewEngine(callback) EXCEPT !.protocolVersion = 4]
    /\ buf = SessionOpenBuf(TotalBytes(items))
    /\ tf = TfInit
    /\ st = StInit
    /\ fsh = [Connected(FshInit, 4) EXCEPT !.usbOpen = TRUE, !.op = "flash",
                                           !.result = "none",
                                           !.reboot = TRUE,
                                           !.totalBytes = TotalBytes(items)]
    /\ pit = PitInit
    /\ lastWrite = CmdFrame(buf, eng.packetSize, "ok")
    /\ ops = <<"cmd", "read", "cmd", "read">>
    /\ mlog = NoMemberLog
    /\ sess = [declared |-> TotalBytes(items), finalized |-> 0, opened |-> TRUE]
    /\ usb = u
    /\ ui = page
    /\ calc = NoCalc
InitUploadWith(firmwares, u) == InitUploadAt(firmwares, u, UiInit)
InitUpload == InitUploadWith(UploadFirmwares, NoUsb)

NextUpload == UploadBinariesMatch \/ Upload

SpecUpload == InitUpload /\ [][NextUpload]_vars

(***************************************************************************)
(* The same operations with the replies recorded, and with the calls the   *)
(* page can make after a call that threw.                                  *)
(***************************************************************************)
\* one member of two blocks, sent by transferFile (the streaming path is watched
\* in SpecUploadWatch)
WatchFirmwares == { <<PreLoaded(NameBootImg, FileTransferPacketSize + 1, NoContent)>> }
InitWatch == InitWith(WatchFirmwares, WatchedUsb)
Again == ConnectAgain \/ FlashAgain \/ DumpPitAgain
NextWatch ==
    \/ Connect
    \/ FlashStart \/ SessionOpen \/ SessionOpenReply
    \/ DumpPitStart
    \/ PitTransfer
    \/ UploadBinariesMatch
    \/ UploadBinariesLoop \/ TransferFile
    \/ CloseWrite \/ CloseReply \/ RebootWrite \/ FlashReturn
    \/ Again
SpecWatch == InitWatch /\ [][NextWatch]_vars

\* one frame that fills the send buffer once, and one of short blocks
WatchStreamContents ==
    { Content(NULL, {4 * MiB}, MaxMixedBlocks),
      Content(NULL, SmallBlocks, MaxSmallBlocks) }
UploadWatchFirmwares ==
    {<<PreLoaded(NameBootImg, s, NoContent)>> : s \in {1, MAX_CHUNK_SIZE + 1}}
    \cup {<<OnDemand(NameSuperLz4, Sz(4, 1), c)>> : c \in WatchStreamContents}
    \cup {<<PreLoaded(NameBootLz4, 10, Content(2 * FileTransferPacketSize, {}, 0)),
            OnDemand(NameModemGz, Sz(0, 10), Content(FileTransferPacketSize - 1, {}, 0))>>}
InitUploadWatch == InitUploadWith(UploadWatchFirmwares, WatchedUsb)
SpecUploadWatch == InitUploadWatch /\ [][NextUpload]_vars

\* an upload the user may ask to stop: the page as startFlash leaves it while
\* flasher.flash() runs.  The packages: one member of two chunks; and a PIT file
\* as parseTAR (list-files.ps1 1213-1226) pushes it onto firmwareData.items
PitFileSize == 4096
Flashing ==
    StartFlash([UiInit EXCEPT !.isConnected = TRUE, !.currentFirmware = TRUE,
                              !.flashDisabled = FALSE], TRUE)
StopFirmwares ==
    { <<PreLoaded(NameBootImg, MAX_CHUNK_SIZE + 1, NoContent)>>,
      <<PreLoaded(NamePit, PitFileSize, NoContent)>> }
InitStop == InitUploadAt(StopFirmwares, NoUsb, Flashing)
NextStop ==
    \/ UploadBinariesMatch \/ UploadBinariesLoop \/ TransferFile
    \/ CloseWrite \/ CloseReply \/ RebootWrite \/ FlashReturn
    \/ ClickStop
SpecStop == InitStop /\ [][NextStop]_vars

(***************************************************************************)
(* The page alone: the flasher's calls are what the page awaits.           *)
(***************************************************************************)
InitUI == InitWith(WatchFirmwares, NoUsb) /\ fsh.fwPit = NULL
NextUI ==
    \/ ClickConnect \/ ConnectSettles
    \/ SelectFirmware \/ LoadSettles
    \/ ClickFlash \/ FlashSettles
SpecUI == InitUI /\ [][NextUI]_vars

(***************************************************************************)
(* uploadBinaries' partition matching, applied to one member at a time     *)
(***************************************************************************)
NameBootImgLz4Upper == <<"B", "O", "O", "T", ".", "I", "M", "G", ".", "L", "Z", "4">>
NameSbootBin == <<"s", "b", "o", "o", "t", ".", "b", "i", "n">>
NameRecoveryImg == <<"r", "e", "c", "o", "v", "e", "r", "y", ".", "i", "m", "g">>
NameBl2Bin == <<"b", "l", "2", ".", "b", "i", "n">>
NameUserdataImg == <<"u", "s", "e", "r", "d", "a", "t", "a", ".", "i", "m", "g">>
NameUpParamBin == <<"u", "p", "-", "p", "a", "r", "a", "m", ".", "b", "i", "n">>
NameABCImg == <<"a", "-", "b", "-", "c", ".", "i", "m", "g">>
NameBootloaderImg == <<"b", "o", "o", "t", "l", "o", "a", "d", "e", "r", ".", "i", "m", "g">>
MatchNames ==
    {NameBootImg, NameBootLz4, NameBootImgLz4Upper, NameSbootBin, NameRecoveryImg,
     NameBl2Bin, NameUserdataImg, NameUpParamBin, NameABCImg, NameBootloaderImg,
     NameModemGz}
\* the fields of a PitEntry that the matching reads
PitEntryOf(partitionName, flashFilename, partitionId, deviceType) ==
    [partitionName |-> partitionName, flashFilename |-> flashFilename,
     partitionId |-> partitionId, deviceType |-> deviceType]
EntryBootloader == PitEntryOf(<<"B", "O", "O", "T", "L", "O", "A", "D", "E", "R">>, NameSbootBin, 80, 2)
EntryBoot == PitEntryOf(<<"B", "O", "O", "T">>, NameBootImg, 3, 2)
EntryBootB == PitEntryOf(<<"B", "O", "O", "T", "_", "B">>, NameBootImg, 4, 2)
EntryUpParam == PitEntryOf(<<"U", "P", "_", "P", "A", "R", "A", "M">>, <<"p", "a", "r", "a", "m", ".", "b", "i", "n">>, 9, 2)
EntryABC == PitEntryOf(<<"A", "_", "B", "_", "C">>, <<"a", "b", "c", ".", "b", "i", "n">>, 7, 2)
EntryUserdata == PitEntryOf(<<"U", "S", "E", "R", "D", "A", "T", "A">>, NameUserdataImg, 20, 8)
MatchPits ==
    { <<EntryBootloader, EntryBoot>>, <<EntryBoot, EntryBootB>>, <<EntryBootB, EntryBoot>>,
      <<EntryUpParam, EntryABC>>, <<EntryUserdata>>, <<>> }
MatchCalls ==
    [fn : {"match"}, item : {OnDemand(n, Sz(0, 1), NoContent) : n \in MatchNames},
     entries : MatchPits, done : {FALSE}]
    \cup [fn : {"detect"}, item : {OnDemand(n, Sz(0, 1), NoContent) : n \in MatchNames},
          entries : {<<>>}, done : {FALSE}]
\* the session at rest, and one call to look at
InitCalc(calls) ==
    /\ InitSession({<<>>}, NoUsb) /\ fsh.fwPit = NULL
    /\ ui = UiInit
    /\ calc \in calls
InitMatch == InitCalc(MatchCalls)
\* lines 252-280 for the item
MatchApplied ==
    /\ calc.fn = "match" /\ ~calc.done
    /\ calc' = [calc EXCEPT !.item = MatchItem(@, calc.entries), !.done = TRUE]
    /\ UNCHANGED <<session, ui>>
\* lines 284-304 for the item
DetectApplied ==
    /\ calc.fn = "detect" /\ ~calc.done
    /\ calc' = [calc EXCEPT !.item = DetectFromName(@), !.done = TRUE]
    /\ UNCHANGED <<session, ui>>
NextMatch == MatchApplied \/ DetectApplied
SpecMatch == InitMatch /\ [][NextMatch]_vars

(***************************************************************************)
(* pit-parser.js: PitParser.parse and PitParser.serialize.  A string is    *)
(* the sequence of its character codes, a byte array a sequence of bytes.  *)
(***************************************************************************)
PIT_MAGIC == 305436790
PIT_HEADER_SIZE == 28
PIT_ENTRY_SIZE == 132
\* new Uint8Array(size)
ZeroArray(size) == [i \in 1..size |-> 0]
\* Uint8Array.set(bytes, at)
ArraySet(a, bytes, at) ==
    [i \in 1..Len(a) |-> IF i > at /\ i <= at + Len(bytes) THEN bytes[i - at] ELSE a[i]]
\* TextEncoder.encode: UTF-8, for character codes below 2048
RECURSIVE Utf8(_)
Utf8(str) ==
    IF str = <<>> THEN <<>>
    ELSE (IF Head(str) < 128 THEN <<Head(str)>>
          ELSE <<192 + (Head(str) \div 64), 128 + (Head(str) % 64)>>) \o Utf8(Tail(str))
\* a variant of readString that reads the whole field, NUL bytes included
RECURSIVE ReadWholeField(_, _, _)
ReadWholeField(buffer, offset, maxLength) ==
    IF maxLength = 0 THEN <<>>
    ELSE <<buffer[offset + 1]>> \o ReadWholeField(buffer, offset + 1, maxLength - 1)
\* utils.js readString, lines 230-238: String.fromCharCode of every byte up to the
\* first NUL, at most maxLength of them
ReadString(buffer, offset, maxLength) ==
    LET nuls == {i \in 0..(maxLength - 1) :
                    offset + i + 1 <= Len(buffer) /\ buffer[offset + i + 1] = 0}
        end == IF nuls = {} THEN maxLength
               ELSE CHOOSE i \in nuls : \A j \in nuls : i <= j
    IN  SubSeq(buffer, offset + 1, offset + end)
\* writeString, lines 174-180
WriteString(buffer, offset, str, maxLength) ==
    LET bytes == Utf8(str)
        len == Min(Len(bytes), maxLength - 1)
    IN  ArraySet(ArraySet(buffer, SubSeq(bytes, 1, len), offset), <<0>>, offset + len)
\* the nine numeric fields of a PitEntry, in the order of the format
NumericFields ==
    <<"binaryType", "deviceType", "partitionId", "partitionType", "filesystem",
      "startBlock", "numBlocks", "fileOffset", "fileSize">>
\* parseEntry, lines 107-127
ParseEntry(data, offset) ==
    [binaryType |-> LEToNumber(data, offset + 0, 4),
     deviceType |-> LEToNumber(data, offset + 4, 4),
     partitionId |-> LEToNumber(data, offset + 8, 4),
     partitionType |-> LEToNumber(data, offset + 12, 4),
     filesystem |-> LEToNumber(data, offset + 16, 4),
     startBlock |-> LEToNumber(data, offset + 20, 4),
     numBlocks |-> LEToNumber(data, offset + 24, 4),
     fileOffset |-> LEToNumber(data, offset + 28, 4),
     fileSize |-> LEToNumber(data, offset + 32, 4),
     partitionName |-> ReadString(data, offset + 36, 32),
     flashFilename |-> ReadString(data, offset + 68, 32),
     fotaFilename |-> ReadString(data, offset + 100, 32)]
\* parse, lines 85-97: the entry loop from entry i on, with its `break`
RECURSIVE ParseEntries(_, _, _, _)
ParseEntries(pitData, offset, i, count) ==
    IF i >= count \/ offset + PIT_ENTRY_SIZE > Len(pitData) THEN <<>>
    ELSE <<ParseEntry(pitData, offset)>> \o
         ParseEntries(pitData, offset + PIT_ENTRY_SIZE, i + 1, count)
ParseFailed(msg) == [ok |-> FALSE, error |-> msg]
\* parse, lines 61-102
Parse(pitData) ==
    IF Len(pitData) < PIT_HEADER_SIZE THEN ParseFailed("PIT data too small")
    ELSE LET magic == LEToNumber(pitData, 0, 4)
             count == LEToNumber(pitData, 4, 4)
         IN  IF magic # PIT_MAGIC THEN ParseFailed("Invalid PIT magic")
             ELSE [ok |-> TRUE,
                   pit |-> [magic |-> magic, count |-> count,
                            entries |-> ParseEntries(pitData, PIT_HEADER_SIZE, 0, count)]]
\* serializeEntry, lines 153-169
RECURSIVE SerializeNumbers(_, _, _, _)
SerializeNumbers(entry, buffer, offset, k) ==
    IF k > Len(NumericFields) THEN buffer
    ELSE SerializeNumbers(entry,
             ArraySet(buffer, NumberToLE(entry[NumericFields[k]], 4), offset + 4 * (k - 1)),
             offset, k + 1)
SerializeEntry(entry, buffer, offset) ==
    WriteString(
        WriteString(
            WriteString(SerializeNumbers(entry, buffer, offset, 1),
                        offset + 36, entry.partitionName, 32),
            offset + 68, entry.flashFilename, 32),
        offset + 100, entry.fotaFilename, 32)
\* serialize, lines 132-148: the entry loop
RECURSIVE SerializeEntries(_, _, _)
SerializeEntries(entries, buffer, offset) ==
    IF entries = <<>> THEN buffer
    ELSE SerializeEntries(Tail(entries), SerializeEntry(Head(entries), buffer, offset),
                          offset + PIT_ENTRY_SIZE)
Serialize(pitData) ==
    LET totalSize == PIT_HEADER_SIZE + Len(pitData.entries) * PIT_ENTRY_SIZE
        header == ArraySet(ArraySet(ZeroArray(totalSize), NumberToLE(pitData.magic, 4), 0),
                           NumberToLE(pitData.count, 4), 4)
    IN  SerializeEntries(pitData.entries, header, PIT_HEADER_SIZE)

\* PIT values to serialize: tables of at most MaxPitEntries entries.  EntryLong
\* has a name of 32 characters and EntryAccent a character outside ASCII
MaxPitEntries == 2
PitEntryWith(n, partitionName, flashFilename) ==
    [binaryType |-> 0, deviceType |-> 2, partitionId |-> n, partitionType |-> 5,
     filesystem |-> 1, startBlock |-> 256 * n, numBlocks |-> 2147483647,
     fileOffset |-> 65536 * n, fileSize |-> 16777216 * n,
     partitionName |-> partitionName, flashFilename |-> flashFilename,
     fotaFilename |-> <<>>]
Str31 == [i \in 1..31 |-> 64 + i]
EntryBootPit == PitEntryWith(3, <<66, 79, 79, 84>>, <<98, 111, 111, 116, 46, 105, 109, 103>>)
EntryMax == PitEntryWith(127, Str31, <<115, 98, 111, 111, 116, 46, 98, 105, 110>>)
EntryLong == PitEntryWith(1, Str31 \o <<33>>, <<>>)
EntryAccent == PitEntryWith(2, <<233>>, <<>>)
PitEntries == {EntryBootPit, EntryMax, EntryLong, EntryAccent}
PitValues ==
    {[magic |-> PIT_MAGIC, count |-> Len(entries), entries |-> entries] :
        entries \in UNION {[1..n -> PitEntries] : n \in 0..MaxPitEntries}}
NoParse == ParseFailed("none")
PitCalls ==
    [fn : {"pit"}, stage : {"value"}, pit : PitValues, bytes : {<<>>}, intact : {TRUE},
     out : {NoParse}]
InitPit == InitCalc(PitCalls)
\* serialize(pit)
PitSerialized ==
    /\ calc.fn = "pit" /\ calc.stage = "value"
    /\ calc' = [calc EXCEPT !.stage = "bytes", !.bytes = Serialize(calc.pit)]
    /\ UNCHANGED <<session, ui>>
\* the bytes as they reach parse from a device or a file: cut short, or with
\* another magic, or with a count above the entries that follow
CutLengths == {0, PIT_HEADER_SIZE - 1, PIT_HEADER_SIZE, PIT_HEADER_SIZE + PIT_ENTRY_SIZE - 1}
PitDamaged ==
    /\ calc.fn = "pit" /\ calc.stage = "bytes" /\ calc.intact
    /\ \/ \E n \in CutLengths :
             /\ n < Len(calc.bytes)
             /\ calc' = [calc EXCEPT !.bytes = SubSeq(@, 1, n), !.intact = FALSE]
       \/ calc' = [calc EXCEPT !.bytes = ArraySet(@, <<0>>, 0), !.intact = FALSE]
       \/ calc' = [calc EXCEPT !.bytes = ArraySet(@, NumberToLE(calc.pit.count + 1, 4), 4),
                               !.intact = FALSE]
    /\ UNCHANGED <<session, ui>>
\* parse(bytes)
PitParsed ==
    /\ calc.fn = "pit" /\ calc.stage = "bytes"
    /\ calc' = [calc EXCEPT !.stage = "parsed", !.out = Parse(calc.bytes)]
    /\ UNCHANGED <<session, ui>>
NextPit == PitSerialized \/ PitDamaged \/ PitParsed
SpecPit == InitPit /\ [][NextPit]_vars

(***************************************************************************)
(* The TAR readers: parseSingleTarFile (app.js), which reads headers only, *)
(* and FirmwareParser.parseTAR (list-files.ps1), which reads from memory.  *)
(* A file is the sequence of its bytes.                                    *)
(***************************************************************************)
TarBlock == 512
MaxTarFiles == 1000
\* String.trim
Whitespace == {9, 10, 11, 12, 13, 32}
RECURSIVE TrimStart(_)
TrimStart(str) ==
    IF str # <<>> /\ Head(str) \in Whitespace THEN TrimStart(Tail(str)) ELSE str
RECURSIVE TrimEnd(_)
TrimEnd(str) ==
    IF str # <<>> /\ str[Len(str)] \in Whitespace
    THEN TrimEnd(SubSeq(str, 1, Len(str) - 1)) ELSE str
Trim(str) == TrimEnd(TrimStart(str))
\* parseInt(str, 8): an optional sign, then the longest run of digits 0..7; NaN
\* when there is no digit
IsOctalDigit(c) == c >= 48 /\ c <= 55
RECURSIVE OctalPrefix(_, _)
OctalPrefix(str, acc) ==
    IF str # <<>> /\ IsOctalDigit(Head(str))
    THEN OctalPrefix(Tail(str), 8 * acc + (Head(str) - 48))
    ELSE acc
NaN == [nan |-> TRUE, value |-> 0]
Number(n) == [nan |-> FALSE, value |-> n]
\* a variant that reads the digits in base 10, as parseInt(str) would
RECURSIVE DecimalPrefix(_, _)
DecimalPrefix(str, acc) ==
    IF str # <<>> /\ Head(str) >= 48 /\ Head(str) <= 57
    THEN DecimalPrefix(Tail(str), 10 * acc + (Head(str) - 48))
    ELSE acc
ParseInt10(str) ==
    LET s == TrimStart(str)
    IN  IF s = <<>> \/ ~(Head(s) >= 48 /\ Head(s) <= 57) THEN NaN
        ELSE Number(DecimalPrefix(s, 0))
ParseInt8(str) ==
    LET s == TrimStart(str)
        negative == s # <<>> /\ Head(s) = 45
        digits == IF s # <<>> /\ Head(s) \in {43, 45} THEN Tail(s) ELSE s
    IN  IF digits = <<>> \/ ~IsOctalDigit(Head(digits)) THEN NaN
        ELSE Number(IF negative THEN 0 - OctalPrefix(digits, 0) ELSE OctalPrefix(digits, 0))
\* Math.ceil(size / 512) * 512
PaddedSize(size) == CeilDiv(size, TarBlock) * TarBlock
\* Blob.slice / Uint8Array.slice(from, to), clamped to the file
Slice(file, from, to) == SubSeq(file, from + 1, Min(to, Len(file)))
\* lines 382-389 (isZeroBlock in parseTAR)
AllZero(header) == \A i \in 1..Len(header) : header[i] = 0
\* lines 392-394: the two header fields
HeaderName(header) == Trim(ReadString(header, 0, 100))
HeaderSize(header) == ParseInt8(Trim(ReadString(header, 124, 12)))
Member(filename, fileOffset, size) ==
    [filename |-> filename, fileOffset |-> fileOffset, actualSize |-> size]
\* parseSingleTarFile, lines 372-429: the loop from currentOffset on; tarEndOffset
\* is file.size for a file whose name does not end with '.md5'
RECURSIVE ParseSingleTarFile(_, _, _)
ParseSingleTarFile(file, currentOffset, filesFound) ==
    IF ~(currentOffset < Len(file) /\ filesFound < MaxTarFiles) THEN <<>>
    ELSE IF currentOffset + TarBlock > Len(file) THEN <<>>
    ELSE LET headerData == Slice(file, currentOffset, currentOffset + TarBlock)
             filename == HeaderName(headerData)
             size == HeaderSize(headerData)
         IN  IF AllZero(headerData) THEN <<>>
             ELSE IF filename = <<>> \/ size.nan \/ size.value < 0
             THEN ParseSingleTarFile(file, currentOffset + TarBlock, filesFound)
             ELSE <<Member(filename, currentOffset + TarBlock, size.value)>> \o
                  ParseSingleTarFile(file,
                      currentOffset + TarBlock + PaddedSize(size.value), filesFound + 1)
\* parseTAR, lines 1178-1226: the loop from offset on; fileOffset is where the
\* member's data.slice starts
RECURSIVE ParseTAR(_, _)
ParseTAR(data, offset) ==
    IF ~(offset < Len(data)) THEN <<>>
    ELSE IF offset + TarBlock > Len(data) THEN <<>>
    ELSE LET header == Slice(data, offset, offset + TarBlock)
             filename == HeaderName(header)
             size == HeaderSize(header)
         IN  IF AllZero(header) THEN <<>>
             ELSE IF filename = <<>> \/ size.nan
             THEN ParseTAR(data, offset + TarBlock)
             ELSE <<Member(filename, offset + TarBlock, size.value)>> \o
                  ParseTAR(data, offset + TarBlock + PaddedSize(size.value))

\* archives to read: at most MaxTarMembers members, each a header block, its data
\* padded to whole blocks, then two zero blocks; `trailer` adds a header block
\* after the two zero blocks
MaxTarMembers == 2
TarSizes == {0, 1, 1000, 4000}
\* the size as 11 octal digits
RECURSIVE OctalDigits(_, _)
OctalDigits(n, k) ==
    IF k = 0 THEN <<>> ELSE OctalDigits(n \div 8, k - 1) \o <<48 + (n % 8)>>
HeaderBlock(name, sizeField) ==
    ArraySet(ArraySet(ZeroArray(TarBlock), name, 0), sizeField, 124)
DataBlocks(size) ==
    [i \in 1..(CeilDiv(size, TarBlock) * TarBlock) |-> IF i <= size THEN 255 ELSE 0]
TarName(k) == <<96 + k, 46, 105, 109, 103>>
RECURSIVE MemberBlocks(_, _)
MemberBlocks(sizes, k) ==
    IF k > Len(sizes) THEN <<>>
    ELSE HeaderBlock(TarName(k), OctalDigits(sizes[k], 11)) \o DataBlocks(sizes[k]) \o
         MemberBlocks(sizes, k + 1)
Archive(sizes, trailer) ==
    MemberBlocks(sizes, 1) \o ZeroArray(2 * TarBlock) \o
    (IF trailer THEN HeaderBlock(TarName(26), OctalDigits(0, 11)) ELSE <<>>)
TarCalls ==
    { [fn |-> "tar", stage |-> "file", sizes |-> sizes, file |-> Archive(sizes, trailer),
       intact |-> TRUE, by |-> "none", out |-> <<>>] :
        sizes \in UNION {[1..n -> TarSizes] : n \in 0..MaxTarMembers},
        trailer \in BOOLEAN }
InitTar == InitCalc(TarCalls)
\* the file as it may reach the reader: its end missing, or the size field of its
\* first header not octal, or larger than the data that follows
TarCuts == {2 * TarBlock, 3 * TarBlock, 3 * TarBlock + 100}
TarDamaged ==
    /\ calc.fn = "tar" /\ calc.stage = "file" /\ calc.intact /\ calc.sizes # <<>>
    /\ \/ \E c \in TarCuts :
             /\ c < Len(calc.file)
             /\ calc' = [calc EXCEPT !.file = SubSeq(@, 1, Len(@) - c), !.intact = FALSE]
       \/ calc' = [calc EXCEPT !.file = ArraySet(@, <<122, 122>>, 124), !.intact = FALSE]
       \/ calc' = [calc EXCEPT !.file = ArraySet(@, <<55, 55>>, 124 + 6), !.intact = FALSE]
    /\ UNCHANGED <<session, ui>>
\* parseSingleTarFile(file, firmwareData)
TarParsedHeaderOnly ==
    /\ calc.fn = "tar" /\ calc.stage = "file"
    /\ calc' = [calc EXCEPT !.stage = "parsed", !.by = "parseSingleTarFile",
                            !.out = ParseSingleTarFile(calc.file, 0, 0)]
    /\ UNCHANGED <<session, ui>>
\* parseTAR(data, firmwareData)
TarParsedInMemory ==
    /\ calc.fn = "tar" /\ calc.stage = "file"
    /\ calc' = [calc EXCEPT !.stage = "parsed", !.by = "parseTAR",
                            !.out = ParseTAR(calc.file, 0)]
    /\ UNCHANGED <<session, ui>>
NextTar == TarDamaged \/ TarParsedHeaderOnly \/ TarParsedInMemory
SpecTar == InitTar /\ [][NextTar]_vars

(***************************************************************************)
(* The upload of what parseSingleTarFile made of a file: the items point   *)
(* into the file the user picked, whole or cut short.                      *)
(***************************************************************************)
\* String.fromCharCode on the bytes of a member name ('a'..'z' and '.')
CharOf(c) == IF c = 46 THEN "." ELSE LowerCase[c - 96]
FromCharCodes(bytes) == [k \in 1..Len(bytes) |-> CharOf(bytes[k])]
\* the item of lines 410-420 for a member, its fileHandle a file of `fileLen` bytes
ItemOf(member, fileLen) ==
    LET item == OnDemand(FromCharCodes(member.filename), SzOfBytes(member.actualSize),
                         NoContent)
    IN  [item EXCEPT !.info.fileOffset = member.fileOffset, !.content.fileLen = fileLen]
ItemsOf(file) ==
    LET out == ParseSingleTarFile(file, 0, 0)
    IN  [k \in 1..Len(out) |-> ItemOf(out[k], Len(file))]
\* archives of one and of two members, whole and with their end missing
ShortFileSizes == {<<4000>>, <<1000, 4000>>}
ShortFiles ==
    LET whole == {Archive(sizes, FALSE) : sizes \in ShortFileSizes}
    IN  whole \cup {SubSeq(f, 1, Len(f) - c) : f \in whole, c \in TarCuts}
ShortFileFirmwares == {ItemsOf(f) : f \in ShortFiles}
InitShortFile == InitUploadWith(ShortFileFirmwares, NoUsb)
NextShortFile ==
    \/ UploadBinariesMatch \/ UploadBinariesLoop
    \/ TransferFileEntry \/ TfActivate \/ TfActivateReply
    \/ TfSequenceBegin \/ TfSequenceReply \/ TfBlockWrite \/ TfBlockReply
    \/ TfFinalizeEmptyBefore \/ TfFinalize \/ TfFinalizeEmptyAfter \/ TfFinalizeReply
    \/ CloseWrite \/ CloseReply \/ RebootWrite \/ FlashReturn
SpecShortFile == InitShortFile /\ [][NextShortFile]_vars

(***************************************************************************)
(* parseTarFromCompressedZip (app.js): the TAR headers are read from the   *)
(* chunks the inflator hands to onData, one call per chunk.                *)
(***************************************************************************)
\* lines 763-765: the parser's variables before the first chunk
ZipTarInit == [items |-> <<>>, tarOffset |-> 0, pendingData |-> <<>>, bytesToSkip |-> 0]
\* lines 836-848: the item of a member found in the decompressed stream
ZipMember(filename, size, tarOffset) ==
    [filename |-> filename, size |-> size, tarOffsetInDecompressed |-> tarOffset + 512]
\* lines 877-882: "Keep any remaining data for next chunk"
KeepRest(z, combined, bufferOffset) ==
    [z EXCEPT !.pendingData = IF bufferOffset < Len(combined)
                              THEN Slice(combined, bufferOffset, Len(combined))
                              ELSE <<>>]
\* lines 806-874: the header loop over the combined buffer; at an all-zero block
\* onData returns as it is
RECURSIVE HeaderLoop(_, _, _)
HeaderLoop(z, combined, bufferOffset) ==
    IF ~(bufferOffset + 512 <= Len(combined)) THEN KeepRest(z, combined, bufferOffset)
    ELSE LET header == Slice(combined, bufferOffset, bufferOffset + 512)
             filename == HeaderName(header)
             size == HeaderSize(header)
         IN  IF AllZero(header) THEN z
             ELSE IF filename = <<>> \/ size.nan \/ size.value < 0
             THEN HeaderLoop([z EXCEPT !.tarOffset = @ + 512], combined, bufferOffset + 512)
             ELSE LET z2 == [z EXCEPT !.items = Append(@, ZipMember(filename, size.value,
                                                                    z.tarOffset)),
                                      !.tarOffset = @ + 512]
                      dataAt == bufferOffset + 512
                      paddedSize == CeilDiv(size.value, 512) * 512
                      dataInBuffer == Len(combined) - dataAt
                  IN  IF dataAt + paddedSize <= Len(combined)
                      THEN HeaderLoop([z2 EXCEPT !.tarOffset = @ + paddedSize], combined,
                                      dataAt + paddedSize)
                      ELSE KeepRest([z2 EXCEPT !.tarOffset = @ + dataInBuffer,
                                               !.bytesToSkip = paddedSize - dataInBuffer],
                                    combined, Len(combined))
\* inflator.onData(chunk), lines 777-883
OnData(z, chunk) ==
    LET combined == z.pendingData \o chunk
        skipNow == IF z.bytesToSkip > 0 THEN Min(z.bytesToSkip, Len(combined)) ELSE 0
        z1 == [z EXCEPT !.tarOffset = @ + skipNow, !.bytesToSkip = @ - skipNow]
    IN  IF z1.bytesToSkip > 0 THEN [z1 EXCEPT !.pendingData = <<>>]
        ELSE HeaderLoop(z1, combined, skipNow)

\* the decompressed streams: archives of up to two members, with and without a
\* header behind the two zero blocks; and the places where a chunk may end
ZipTarSizes == {<<>>, <<1000>>, <<1>>, <<1000, 1>>}
MaxChunks == 3
ChunkEnds(stream) ==
    {c \in {100, 200, 512, 600, 1024, 1536, Len(stream) - 1024, Len(stream) - 512,
            Len(stream) - 100} : 0 < c /\ c < Len(stream)}
\* the ends of the chunks but the last, in stream order
Splits(stream) ==
    {ends \in UNION {[1..n -> ChunkEnds(stream)] : n \in 0..(MaxChunks - 1)} :
        \A k \in 1..(Len(ends) - 1) : ends[k] < ends[k + 1]}
ZipTarCalls ==
    UNION { { [fn |-> "ziptar", stream |-> stream, ends |-> ends \o <<Len(stream)>>,
               fed |-> 0, at |-> 0, z |-> ZipTarInit, whole |-> OnData(ZipTarInit, stream)] :
              ends \in Splits(stream) } :
            stream \in {Archive(sizes, trailer) : sizes \in ZipTarSizes, trailer \in BOOLEAN} }
InitZipTar == InitCalc(ZipTarCalls)
\* the inflator hands the next chunk to onData
ChunkArrives ==
    /\ calc.fn = "ziptar" /\ calc.fed < Len(calc.ends)
    /\ LET to == calc.ends[calc.fed + 1]
       IN  calc' = [calc EXCEPT !.fed = @ + 1, !.at = to,
                                !.z = OnData(@, Slice(calc.stream, calc.at, to))]
    /\ UNCHANGED <<session, ui>>
NextZipTar == ChunkArrives
SpecZipTar == InitZipTar /\ [][NextZipTar]_vars

(***************************************************************************)
(* Properties                                                              *)
(***************************************************************************)
FlashSucceeded == pc = "idle" /\ fsh.result = "flashed"
TfMember == mlog.path = "tf"
StMember == mlog.path = "st"
Last(sq) == sq[Len(sq)]
RECURSIVE SumActual(_, _)
SumActual(fins, n) == IF n = 0 THEN 0 ELSE fins[n].actual + SumActual(fins, n - 1)
RECURSIVE SumSeq(_)
SumSeq(sq) == IF sq = <<>> THEN 0 ELSE Head(sq) + SumSeq(Tail(sq))

\* C1: in every flash that returned success, the total declared in the session-open
\* frame equals the sum of the actual-bytes fields of the finalizers written
C1_DeclaredEqualsFinalized ==
    FlashSucceeded => sess.declared = SzOfBytes(sess.finalized)
\* a successful flash of one pre-loaded .lz4 member of 10 bytes that decompresses
\* to 131072 bytes
C1_Mismatch ==
    /\ FlashSucceeded
    /\ sess.declared = SzOfBytes(10)
    /\ sess.finalized = FileTransferPacketSize

\* C2: a streamed member that returned success after at least one decoded byte has
\* completion_status 1 in its last finalizer and 0 in every earlier one
C2_StreamLastFinalizerComplete ==
    (StMember /\ mlog.done /\ mlog.size > 0) =>
        /\ Len(mlog.fin) > 0
        /\ Last(mlog.fin).completion = 1
        /\ \A i \in 1..(Len(mlog.fin) - 1) : mlog.fin[i].completion = 0
\* a streamed member of exactly SEND_BUFFER_SIZE decoded bytes returned success
\* with one finalizer, of completion_status 0
C2_ExactBufferMember ==
    /\ StMember /\ mlog.done /\ mlog.size = SEND_BUFFER_SIZE
    /\ Len(mlog.fin) = 1 /\ mlog.fin[1].completion = 0

\* C3: in transferFile a finalizer carries completion_status 1 iff its chunk reaches
\* the member's size, else 0, and a transferred member has exactly one finalizer
\* with completion_status 1
C3_CompletionIffLastChunk ==
    TfMember =>
        /\ \A i \in 1..Len(mlog.fin) :
              mlog.fin[i].completion =
                  (IF SumActual(mlog.fin, i) >= mlog.size THEN 1 ELSE 0)
        /\ mlog.done => Cardinality({i \in 1..Len(mlog.fin) : mlog.fin[i].completion = 1}) = 1
\* an on-demand member of 0 bytes went through transferFile: activation, no chunk
C3_EmptyMember == TfMember /\ mlog.done /\ mlog.size = 0 /\ mlog.fin = <<>>

\* C3, for members of at least one byte: the same statement, which holds
C3_CompletionIffLastChunkNonEmpty == mlog.size > 0 => C3_CompletionIffLastChunk
C3_NonEmptyWitness ==
    TfMember /\ mlog.done /\ Len(mlog.fin) = 2 /\ mlog.fin[1].completion = 0

\* C4: a member of S > 0 bytes sent by transferFile is announced by exactly
\* ceil(S / MAX_CHUNK_SIZE) sequence-begin frames, every size in 1..MAX_CHUNK_SIZE,
\* all but the last equal to MAX_CHUNK_SIZE, summing to S
C4_ChunkSizes ==
    (TfMember /\ mlog.size > 0) =>
        /\ Len(mlog.seq) <= CeilDiv(mlog.size, MAX_CHUNK_SIZE)
        /\ \A i \in 1..Len(mlog.seq) :
              /\ mlog.seq[i] > 0
              /\ mlog.seq[i] <= MAX_CHUNK_SIZE
              /\ i < CeilDiv(mlog.size, MAX_CHUNK_SIZE) => mlog.seq[i] = MAX_CHUNK_SIZE
        /\ mlog.done =>
              /\ Len(mlog.seq) = CeilDiv(mlog.size, MAX_CHUNK_SIZE)
              /\ SumSeq(mlog.seq) = mlog.size
              /\ mlog.size = 200 * MiB => Len(mlog.seq) = 7
C4_Witness == TfMember /\ mlog.done /\ mlog.size = 200 * MiB /\ Len(mlog.seq) = 7

\* C5: a streamed member of D > 0 decoded bytes is announced by exactly
\* ceil(D / SEND_BUFFER_SIZE) sequence-begin frames, one per flush
C5_FlushCount ==
    StMember =>
        /\ Len(mlog.seq) <= CeilDiv(mlog.size, SEND_BUFFER_SIZE)
        /\ (mlog.done /\ mlog.size > 0) =>
              Len(mlog.seq) = CeilDiv(mlog.size, SEND_BUFFER_SIZE)
C5_Witness ==
    /\ StMember /\ mlog.done /\ Len(mlog.seq) = 3
    /\ mlog.size % SEND_BUFFER_SIZE # 0

\* C6: while a member is streamed, 0 <= bufferPos <= SEND_BUFFER_SIZE, bufferPos is
\* below SEND_BUFFER_SIZE when bytes are about to be copied in and 0 right after a
\* flush, and the buffer is the one allocation made at the start
Streaming ==
    pc \in {"st_decode", "st_copy", "st_seq_w", "st_seq_r", "st_blk_zlp", "st_blk_w",
            "st_blk_r", "st_fin_zlp1", "st_fin_w", "st_fin_zlp2", "st_fin_r"}
C6_BufferBounded ==
    Streaming =>
        /\ st.bufferPos >= 0
        /\ st.bufferPos <= SEND_BUFFER_SIZE
        /\ pc = "st_copy" => st.bufferPos < SEND_BUFFER_SIZE
        /\ st.flushed => st.bufferPos = 0
        /\ st.sendBuffer = SEND_BUFFER_SIZE
        /\ st.allocs = 1
C6_Witness == pc = "st_copy" /\ st.flushed /\ st.sequenceNum = 1 /\ st.blockOffset > 0

\* C7: a data block is written either right after the sequence-begin reply (the
\* first block, no zero-length write) or right after one zero-length write that
\* follows the previous block's reply; a finalizer has exactly one zero-length
\* write right before and right after it; a failed zero-length write does not abort
OpAt(k) == ops[Len(ops) - k]
C7_ZeroLengthWrites ==
    /\ (Len(ops) >= 3 /\ OpAt(0) = "data") =>
          \/ OpAt(1) = "read" /\ OpAt(2) = "cmd"
          \/ /\ OpAt(1) = "zlp" /\ OpAt(2) = "read"
             /\ Len(ops) >= 4 => OpAt(3) = "data"
    /\ (Len(ops) >= 3 /\ OpAt(0) = "fin") => (OpAt(1) = "zlp" /\ OpAt(2) = "read")
    /\ \A k \in 1..(Len(ops) - 1) :
          ops[k] = "fin" =>
              /\ ops[k + 1] = "zlp"
              /\ k + 2 <= Len(ops) => ops[k + 2] = "read"
    /\ (Len(ops) >= 1 /\ OpAt(0) = "zlp") => pc # "error"
C7_Witness ==
    /\ mlog.done /\ mlog.zlpFailed /\ mlog.blocks >= 2
    /\ ops = <<"zlp", "fin", "zlp", "read">>

\* C8: after a data-block write the next transport operation is one read, and the
\* operation after that read is a write
C8_AckBeforeNextWrite ==
    \A k \in 1..(Len(ops) - 1) :
        ops[k] = "data" =>
            /\ ops[k + 1] = "read"
            /\ k + 2 <= Len(ops) => ops[k + 2] \in {"zlp", "fin", "data", "cmd"}
C8_Witness == ops = <<"data", "read", "zlp", "data">>

\* C9: every data block handed to the transport is 131072 bytes, member bytes
\* first and zero padding behind; a chunk of n bytes goes out as ceil(n / 131072)
\* blocks and its finalizer carries n
C9_BlocksPadded ==
    /\ lastWrite.kind = "data" =>
          /\ lastWrite.len = FileTransferPacketSize
          /\ lastWrite.actual > 0
          /\ lastWrite.actual <= lastWrite.len
    /\ \A i \in 1..Len(mlog.fin) :
          /\ mlog.fin[i].actual = mlog.fin[i].bytes
          /\ mlog.fin[i].actual = mlog.seq[i]
          /\ mlog.fin[i].blocks = CeilDiv(mlog.fin[i].actual, FileTransferPacketSize)
C9_Witness ==
    /\ lastWrite.kind = "zlp" /\ Len(mlog.fin) = 1
    /\ mlog.fin[1].blocks = 2 /\ mlog.fin[1].actual = FileTransferPacketSize + 1

\* C10: every command frame written (first u32 100, 101, 102 or 103) is 1024
\* bytes long and zero behind its payload
PayloadLen(w) ==
    IF FrameCmd(w) = 102 /\ FrameSub(w) = 3 THEN 8 * 4
    ELSE IF FrameCmd(w) = 100 /\ FrameSub(w) = 2 THEN 4 * 4
    ELSE 3 * 4
C10_CommandFrames1024 ==
    lastWrite.kind = "cmd" =>
        /\ FrameCmd(lastWrite) \in 100..103
        /\ lastWrite.len = 1024
        /\ \A i \in (PayloadLen(lastWrite) + 1)..HeadLen : lastWrite.head[i] = 0
C10_Witness ==
    /\ lastWrite.kind = "cmd" /\ FrameCmd(lastWrite) = 103 /\ FrameSub(lastWrite) = 1
    /\ fsh.op = "flash"

(***************************************************************************)
(* Replies                                                                 *)
(***************************************************************************)
\* the reads of an 8-byte reply, by the position of the read: version query,
\* part-size negotiation, session open, PIT upload confirmation, and activation,
\* sequence begin, block acknowledgement and finalizer in both transfer paths
FramedReads ==
    {"cn_ver_r", "cn_ps_r", "fl_open_r", "pu_r",
     "tf_act_r", "tf_seq_r", "tf_blk_r", "tf_fin_r",
     "st_act_r", "st_seq_r", "st_blk_r", "st_fin_r"}
\* the command of the frame each of these reads answers
SentCmd(at) ==
    IF at \in {"cn_ver_r", "cn_ps_r", "fl_open_r"} THEN 100
    ELSE IF at \in {"pu_r", "pr_req_r"} THEN 101
    ELSE 102
ReplyRead(ats) == usb.reply.at \in ats /\ ~Rejects(usb.reply)
OperationFailed == pc = "error"

\* C11: a reply read that returns fewer than 8 bytes makes the operation that
\* issued the read fail, in each of the phases of FramedReads
C11_ShortReplyFails ==
    ReplyRead(FramedReads) /\ usb.reply.len < 8 => OperationFailed
\* a part-size reply of 7 bytes, and connectDevice has returned success
C11_ShortPartSizeAccepted ==
    /\ ReplyRead({"cn_ps_r"}) /\ usb.reply.len = 7
    /\ pc = "idle" /\ fsh.isConnected /\ fsh.result = "connected"

\* C12: a reply of 8 bytes or more whose first word is not the command just sent,
\* or is 0xFFFFFFFF, makes the enclosing connect or flash fail, in each phase that
\* expects a reply (the PIT size request included)
EchoReads == (FramedReads \ {"pu_r"}) \cup {"pr_req_r"}
C12_BadEchoFatal ==
    /\ ReplyRead(EchoReads)
    /\ usb.reply.len >= 8
    /\ usb.reply.cmd # SentCmd(usb.reply.at)
    => OperationFailed
\* the version query answered with 0xFFFFFFFF, and connectDevice has returned
\* success
C12_RefusedVersionAccepted ==
    /\ ReplyRead({"cn_ver_r"}) /\ usb.reply.len = 8 /\ usb.reply.cmd = Refused
    /\ pc = "idle" /\ fsh.isConnected /\ fsh.result = "connected"

\* C13: handshake() succeeds if and only if the write of "ODIN" reports 4 bytes
\* written and the reply has at least 4 bytes whose first four are 'L' 'O' 'K' 'E';
\* in every other case connectDevice fails with no command frame written, and no
\* step of the handshake changes isConnected
HandshakeWritten == lastWrite.kind = "raw" /\ lastWrite.len = 4
HandshakeFailed == pc = "error" /\ err = Error("Failed handshake")
SaysLoke(reply) ==
    /\ reply.len >= 4
    /\ reply.cmd >= 0
    /\ NumberToLE(reply.cmd, 4) = <<76, 79, 75, 69>>
C13_HandshakeOutcome ==
    /\ HandshakeWritten /\ Written(4, lastWrite.res) # 4 => HandshakeFailed
    /\ usb.reply.at = "hs_r" =>
          /\ HandshakeWritten /\ lastWrite.res = "ok"
          /\ IF SaysLoke(usb.reply) THEN pc = "cn_ver_w" ELSE HandshakeFailed
    /\ HandshakeFailed =>
          /\ \A i \in 1..Len(ops) : ops[i] # "cmd"
          /\ fsh.result # "connected"
C13_HandshakeStep == pc \in {"hs_w", "hs_r"} => (fsh.isConnected <=> fsh'.isConnected)
SessionOpenFrame(w) == w.kind = "cmd" /\ FrameCmd(w) = 100 /\ FrameSub(w) = 2
C14_SessionOpenFirst ==
    /\ fsh.op = "flash" /\ lastWrite.kind # "none" /\ ~SessionOpenFrame(lastWrite)
          => sess.opened
    /\ usb.reply.at = "fl_open_r" =>
          /\ SessionOpenFrame(lastWrite)
          /\ IF ~Rejects(usb.reply) /\ usb.reply.len >= 8
                 /\ usb.reply.cmd = 100 /\ usb.reply.data = 0
             THEN pc \in {"pu_w", "pu_r", "pr_req_w", "ub_match"}
             ELSE OperationFailed
C14_NothingAfterThrow == pc = "error" => lastWrite' = NoFrame /\ ops' = <<>>
C14_SessionOpen == []C14_SessionOpenFirst /\ [][C14_NothingAfterThrow]_vars
\* the first PIT frame (101, 1) is written, after a session-open reply was read
C14_Witness ==
    /\ fsh.op = "flash" /\ sess.opened /\ pc = "pr_req_r"
    /\ lastWrite.kind = "cmd" /\ FrameCmd(lastWrite) = 101

FinalizerReads == {"tf_fin_r", "st_fin_r"}
\* the read ended because the timer won
TimedOut(reply) == reply.len = NULL /\ reply.cmd = NULL

\* C15: in both transfer paths, a finalizer reply whose first word is 0xFFFFFFFF
\* makes the transfer fail with an error that carries the reply's data word
C15_RefusedFinalizerFails ==
    /\ ReplyRead(FinalizerReads)
    /\ usb.reply.len >= 8
    /\ usb.reply.cmd = Refused
    => OperationFailed /\ err.code = usb.reply.data
\* the streaming path read (0xFFFFFFFF, 1) after its last finalizer, and the member
\* is done
C15_StreamRefusalIgnored ==
    /\ ReplyRead({"st_fin_r"}) /\ usb.reply.len = 8
    /\ usb.reply.cmd = Refused /\ usb.reply.data = 1
    /\ pc = "ub_loop" /\ mlog.done

\* C16: in both transfer paths, when the finalizer reply is missing (the read timed
\* out or returned fewer than 8 bytes) the transfer goes on exactly when that
\* finalizer carried completion status 1
MissingReply ==
    /\ usb.reply.at \in FinalizerReads
    /\ TimedOut(usb.reply) \/ (~Rejects(usb.reply) /\ usb.reply.len < 8)
C16_MissingReplyTolerance ==
    MissingReply => (Last(mlog.fin).completion = 1 <=> ~OperationFailed)
\* the streaming path read 7 bytes after a finalizer with completion status 0 and
\* goes on with the next sequence
C16_StreamIntermediateAccepted ==
    /\ usb.reply.at = "st_fin_r" /\ usb.reply.len = 7
    /\ Last(mlog.fin).completion = 0
    /\ ~OperationFailed

\* C17: when connectDevice() or flash() has thrown, the transport is released
\* (the device closed, isConnected false), and the next call that gets to write to
\* the device is a connectDevice()
CallThrew == OperationFailed /\ fsh.op \in {"connect", "flash"}
C17_Released == CallThrew => ~fsh.usbOpen /\ ~fsh.isConnected
C17_ConnectNext == CallThrew => pc' \in {"error", "hs_w"}
C17_FailedIsTerminal == []C17_Released /\ [][C17_ConnectNext]_vars
\* flash() has thrown after it wrote a frame, and the flasher is still connected
\* with the device open
C17_StillConnected ==
    /\ OperationFailed /\ fsh.op = "flash" /\ lastWrite.kind = "cmd"
    /\ fsh.isConnected /\ fsh.usbOpen
\* the step C17_ConnectNext excludes: flash() called again after a flash() that threw
C17_FlashesAgain == [][~(CallThrew /\ fsh.op = "flash" /\ pc' = "fl_open_w")]_vars

\* C18: a flash that reports success has sent every data block of its members in
\* full, and a flash that has thrown has written no end-session or reboot frame
\* (103) after the failure
C18_NoPartialSuccess ==
    /\ FlashSucceeded => ~usb.short
    /\ CallThrew /\ fsh.op = "flash" => ~(lastWrite.kind = "cmd" /\ FrameCmd(lastWrite) = 103)
\* flash() has returned true, and a data block of the streamed member went out in
\* part only
C18_PartialBlockSucceeded == FlashSucceeded /\ StMember /\ mlog.done /\ usb.short

\* C20: whenever a write or a read is issued, no earlier read is still outstanding
\* on the device, a read that ended by timeout included
C20_OneTransfer == ~usb.overlap
\* the activation frame of the second member was written while the read that timed
\* out after the first member's last finalizer was outstanding
C20_ActivationWhilePending ==
    /\ usb.overlap /\ idx = 2 /\ pc \in {"tf_act_r", "st_act_r"}
    /\ lastWrite.kind = "cmd" /\ FrameCmd(lastWrite) = 102 /\ FrameSub(lastWrite) = 0

\* C19: under any interleaving of the page's events at most one flasher.flash()
\* call is in progress, and none is started while isFlashing is true
C19_FlashStarts == ui.isFlashing => ui'.flashes <= ui.flashes
C19_OneFlash == [](ui.flashes <= 1) /\ [][C19_FlashStarts]_vars
\* two flasher.flash() calls are in progress
C19_TwoFlashes == ui.flashes = 2 /\ ui.isFlashing /\ ui.loads = 0

\* C21: once the user has confirmed the stop dialog during a flash, no
\* sequence-begin frame (102, 2) is written after the next chunk boundary, and the
\* flash does not report success once a chunk boundary has followed the request
C21_StopHonoured ==
    /\ usb.stop # "ignored"
    /\ FlashSucceeded => usb.stop = "none"
\* the stop was confirmed during the first chunk, the chunk's finalizer went out,
\* and the second chunk's sequence-begin frame was written all the same
C21_StopIgnored ==
    /\ ui.stopRequested /\ usb.stop = "ignored"
    /\ IsSequenceBegin(lastWrite) /\ Len(mlog.seq) = 2

(***************************************************************************)
(* Members that are not partition content                                  *)
(***************************************************************************)
IsMetadata(item) ==
    Includes(item.filename, StrMetaData) \/ EndsWith(item.filename, SufZip)
WithoutMetadata(its) == SelectSeq(its, LAMBDA item : ~IsMetadata(item))
\* transferFile or transferFileStreamingLZ4 is running for items[idx]
InTransfer ==
    pc \in {"tf_entry", "tf_act_w", "tf_act_r", "tf_seq_w", "tf_seq_r", "tf_blk_zlp",
            "tf_blk_w", "tf_blk_r", "tf_fin_zlp1", "tf_fin_w", "tf_fin_zlp2", "tf_fin_r",
            "st_act_w", "st_act_r"} \cup
           {"st_decode", "st_copy", "st_seq_w", "st_seq_r", "st_blk_zlp", "st_blk_w",
            "st_blk_r", "st_fin_zlp1", "st_fin_w", "st_fin_zlp2", "st_fin_r"}

\* C22: a member whose name contains 'meta-data/' or ends with '.zip' is never
\* handed to a transfer; the loop turn that meets it writes no frame and moves to
\* the next member; and the total declared in the session-open frame is the total
\* of the other members
C22_SkipStep ==
    (pc = "ub_loop" /\ idx <= Len(items) /\ IsMetadata(items[idx])) =>
        /\ pc' = "ub_loop" /\ idx' = idx + 1
        /\ lastWrite' = lastWrite /\ ops' = ops
C22_MetadataSkipped ==
    /\ [](InTransfer => ~IsMetadata(items[idx]))
    /\ [](SessionOpenFrame(lastWrite) =>
              UnpackQ(lastWrite.head, 8) = TotalBytes(WithoutMetadata(items)))
    /\ [][C22_SkipStep]_vars
\* the package's second member, home.zip or meta-data/fota.zip, was passed over
\* after the first member's transfer, and the session is about to be closed
C22_Witness ==
    /\ pc = "fl_close_w" /\ idx = 3 /\ Len(items) = 2 /\ IsMetadata(items[2])
    /\ mlog.done /\ Len(mlog.fin) > 0
    /\ sess.declared = DeclaredBytes(items[1])

\* C23: no activation frame (102, 0) is written for a member whose body to send
\* is empty
IsActivation(w) == w.kind = "cmd" /\ FrameCmd(w) = 102 /\ FrameSub(w) = 0
C23_EmptyBodySkipped == (TfMember /\ IsActivation(lastWrite)) => mlog.size > 0
\* the activation frame went out for an on-demand member whose range is 0 bytes
C23_EmptyActivated ==
    /\ pc = "tf_act_r" /\ TfMember /\ mlog.size = 0
    /\ IsActivation(lastWrite) /\ lastWrite.res = "ok"
    /\ items[idx].data = NULL /\ items[idx].info.actualSize = Sz(0, 0)

\* C24: no 102 frame (activation, sequence begin, finalizer) is written for a
\* member whose name ends with '.pit'
IsPitFile(item) == EndsWith(item.filename, SufPit)
C24_PitNotUploaded ==
    (InTransfer /\ lastWrite.kind = "cmd" /\ FrameCmd(lastWrite) = 102)
        => ~IsPitFile(items[idx])
\* the PIT file's one data block and its finalizer went out as partition content
C24_PitUploaded ==
    /\ IsPitFile(items[idx]) /\ pc = "tf_fin_r" /\ TfMember
    /\ mlog.blocks = 1 /\ Len(mlog.fin) = 1 /\ mlog.fin[1].actual = PitFileSize

(***************************************************************************)
(* Partition matching                                                      *)
(***************************************************************************)
IdsOf(item) == <<item.info.partition_id, item.info.device_type>>
\* the entry test with every '-' replaced on both sides
EntryMatchesEveryHyphen(fname, entry) ==
    \/ EntryMatchesByName(fname, entry)
    \/ EveryHyphen(FnameBase(fname)) = EveryHyphen(ToLowerCase(entry.partitionName))
FirstMatchEveryHyphen(fname, entries) ==
    FirstOf({k \in 1..Len(entries) : EntryMatchesEveryHyphen(fname, entries[k])})
Matched == calc.fn = "match" /\ calc.done

\* C25: with a PIT, a member gets the partition id and device type of the first
\* entry, in table order, that matches it by one of the four rules, compared
\* without regard to case, the fourth rule replacing every '-' by '_' on both sides
C25_FirstMatchingEntry ==
    Matched =>
        LET k == FirstMatchEveryHyphen(ToLowerCase(calc.item.filename), calc.entries)
        IN  k # 0 => IdsOf(calc.item) = <<calc.entries[k].partitionId,
                                          calc.entries[k].deviceType>>
\* a-b-c.img was matched against a table holding A_B_C and came out without a
\* partition id
C25_TwoHyphensUnmatched ==
    /\ Matched /\ calc.item.filename = NameABCImg
    /\ calc.entries = <<EntryUpParam, EntryABC>>
    /\ IdsOf(calc.item) = <<NULL, 2>>
\* C25, with the fourth rule as the code applies it (the first '-' only): the same
\* statement, which holds; a member no entry matches keeps its partition id
C25_FirstMatchingEntryFirstHyphen ==
    Matched =>
        LET k == FirstMatch(ToLowerCase(calc.item.filename), calc.entries)
        IN  IdsOf(calc.item) = IF k = 0 THEN <<NULL, 2>>
                               ELSE <<calc.entries[k].partitionId, calc.entries[k].deviceType>>
\* the example of the claim: BOOT.IMG.LZ4 against [BOOTLOADER, BOOT] gets (3, 2)
C25_ExampleWitness ==
    /\ Matched /\ calc.item.filename = NameBootImgLz4Upper
    /\ calc.entries = <<EntryBootloader, EntryBoot>>
    /\ IdsOf(calc.item) = <<3, 2>>

Detected == calc.fn = "detect" /\ calc.done
\* the classes of the heuristic, each with its own pair
IsBootloaderName(fname) ==
    Includes(fname, StrSboot) \/ Includes(fname, StrBootloader) \/ StartsWith(fname, StrBl)
ClassPair(fname) ==
    IF IsBootloaderName(fname) THEN <<80, 2>>
    ELSE IF Includes(fname, StrRecovery) THEN <<10, 2>>
    ELSE IF Includes(fname, StrBoot) THEN <<3, 2>>
    ELSE IF Includes(fname, StrModem) \/ Includes(fname, StrRadio) \/ Includes(fname, StrCp)
    THEN <<11, 2>>
    ELSE <<0, 2>>

\* C26: without a PIT, a member gets the pair of the class of its lower-cased
\* name: bootloader (80, 2), recovery (10, 2), any other boot (3, 2), modem, radio
\* or cp (11, 2), every other name (0, 2)
C26_ClassPairs == Detected => IdsOf(calc.item) = ClassPair(ToLowerCase(calc.item.filename))
\* sboot.bin came out as the boot partition (3, 2)
C26_SbootAsBoot ==
    Detected /\ calc.item.filename = NameSbootBin /\ IdsOf(calc.item) = <<3, 2>>
\* C26, for the names outside the bootloader class that holds 'boot': the same
\* statement, which holds
C26_ClassPairsOtherNames ==
    (Detected /\ ~(IsBootloaderName(ToLowerCase(calc.item.filename))
                    /\ Includes(ToLowerCase(calc.item.filename), StrBoot)))
        => IdsOf(calc.item) = ClassPair(ToLowerCase(calc.item.filename))
C26_OtherNamesWitness ==
    Detected /\ calc.item.filename = NameBl2Bin /\ IdsOf(calc.item) = <<80, 2>>

(***************************************************************************)
(* The PIT codec                                                           *)
(***************************************************************************)
PitParsedOk == calc.fn = "pit" /\ calc.stage = "parsed" /\ calc.out.ok
\* C27: a PIT that parse returns has the magic 0x12349876 and as many entries as
\* its count says; bytes with another magic, shorter than the header or shorter
\* than 28 + 132 * count are rejected
C27_CountIsEntries ==
    PitParsedOk =>
        /\ calc.out.pit.magic = PIT_MAGIC
        /\ calc.out.pit.count = Len(calc.out.pit.entries)
\* the bytes of a table of two entries were cut inside the second entry, and
\* parse returned a PIT of count 2 with one entry
C27_FewerEntries ==
    /\ PitParsedOk /\ Len(calc.bytes) = PIT_HEADER_SIZE + PIT_ENTRY_SIZE
    /\ calc.out.pit.count = 2 /\ Len(calc.out.pit.entries) = 1

IsAscii(str) == \A i \in 1..Len(str) : str[i] >= 1 /\ str[i] <= 127
WellFormedEntry(e) ==
    /\ \A k \in 1..Len(NumericFields) : e[NumericFields[k]] >= 0
    /\ \A str \in {e.partitionName, e.flashFilename, e.fotaFilename} :
          IsAscii(str) /\ Len(str) <= 31
WellFormed(p) ==
    /\ p.magic = PIT_MAGIC /\ p.count = Len(p.entries)
    /\ \A k \in 1..Len(p.entries) : WellFormedEntry(p.entries[k])
\* C28: parse(serialize(p)) = p for every well-formed PIT p
C28_RoundTrip ==
    (calc.fn = "pit" /\ calc.stage = "parsed" /\ calc.intact /\ WellFormed(calc.pit))
        => calc.out.ok /\ calc.out.pit = calc.pit
\* a table of two entries, one with a name of 31 characters, came back equal
C28_Witness ==
    /\ PitParsedOk /\ calc.intact /\ calc.pit.entries = <<EntryBootPit, EntryMax>>
    /\ calc.out.pit = calc.pit

(***************************************************************************)
(* The TAR readers                                                         *)
(***************************************************************************)
TarParsed == calc.fn = "tar" /\ calc.stage = "parsed"
\* C29: of a well-formed archive the reader emits the members in archive order,
\* the first with data offset 512 and each next at the previous data offset +
\* ceil(previous size / 512) * 512 + 512, and nothing from behind the first
\* all-zero header block
C29_OffsetsInOrder ==
    (TarParsed /\ calc.intact) =>
        /\ Len(calc.out) = Len(calc.sizes)
        /\ \A k \in 1..Len(calc.out) :
              /\ calc.out[k].filename = TarName(k)
              /\ calc.out[k].actualSize = calc.sizes[k]
              /\ calc.out[k].fileOffset =
                    IF k = 1 THEN 512
                    ELSE calc.out[k - 1].fileOffset
                         + CeilDiv(calc.out[k - 1].actualSize, 512) * 512 + 512
\* the example of the claim: sizes 1000 and 4000 give offsets 512 and 2048, and
\* the header behind the two zero blocks is not emitted
C29_Witness ==
    /\ TarParsed /\ calc.intact /\ calc.by = "parseSingleTarFile"
    /\ calc.sizes = <<1000, 4000>> /\ Len(calc.file) = 7168 + 512
    /\ Len(calc.out) = 2
    /\ calc.out[1].fileOffset = 512 /\ calc.out[2].fileOffset = 2048

RECURSIVE RegionsOf(_)
RegionsOf(out) ==
    IF out = <<>> THEN 0
    ELSE 512 + CeilDiv(Head(out).actualSize, 512) * 512 + RegionsOf(Tail(out))
\* C30: whatever the reader returns members for, the header and padded data of
\* every member and the 1024 terminating zero bytes fit in the input; an archive
\* that ends early or has a bad size field yields no members
C30_RegionsInside ==
    TarParsed =>
        /\ calc.out # <<>> => RegionsOf(calc.out) + 1024 <= Len(calc.file)
        /\ ~calc.intact => calc.out = <<>>
\* C30, for the archives that reach the reader whole: the regions fit
C30_RegionsInsideWhole ==
    (TarParsed /\ calc.intact) => RegionsOf(calc.out) + 1024 <= Len(calc.file)
\* an archive of one member of 4000 bytes lost its tail, and the header-only
\* reader emitted the member with its 4000 bytes all the same
C30_MemberBeyondEnd ==
    /\ TarParsed /\ ~calc.intact /\ calc.by = "parseSingleTarFile"
    /\ calc.sizes = <<4000>> /\ Len(calc.out) = 1
    /\ calc.out[1].actualSize = 4000
    /\ calc.out[1].fileOffset + calc.out[1].actualSize > Len(calc.file)

(***************************************************************************)
(* C31                                                                     *)
(***************************************************************************)
\* the reply just read was delivered (the read neither rejected nor timed out)
ReplyDelivered(reply) == reply.len # NULL
\* a step taken after the acknowledgement of a data block (transferFile) or of a
\* flushed buffer's finalizer (flushBuffer): the places where the callback is called
C31_CallbackStep ==
    (pc \in {"tf_blk_r", "st_fin_r"} /\ eng.progressCallback = "throws"
        /\ ReplyDelivered(usb'.reply) /\ pc' = "error")
    => /\ pc = "tf_blk_r"
       /\ err'.msg \in {"Expected 8-byte response", "Reading beyond data array",
                        "Failed to read block"}
\* C31: an exception of the progress callback never ends the transfer: where the
\* callback is called, the flash fails only for the reasons it fails for with a
\* callback that returns, on both transfer paths
C31_CallbackHarmless == [][C31_CallbackStep]_vars
\* the callback threw after the first acknowledged block of transferFile, or after
\* a flushed buffer of the streaming path, and the flash failed with its exception
C31_CallbackFailedFlash ==
    /\ pc = "error" /\ eng.progressCallback = "throws"
    /\ ReplyDelivered(usb.reply)
    /\ \/ usb.reply.at = "tf_blk_r" /\ usb.reply.len = 8 /\ err.msg = "progress callback"
       \/ usb.reply.at = "st_fin_r" /\ Len(mlog.fin) > 0

(***************************************************************************)
(* C32                                                                     *)
(***************************************************************************)
\* receivePitData returns: the trailing reply was read and the PIT handed on
PitReturns == pc = "pr_end_r" /\ pc' \in {"idle", "ub_match"}
IsPitEnd(w) == w.kind = "cmd" /\ FrameCmd(w) = 101 /\ FrameSub(w) = 3 /\ FrameArg(w, 0) = 0
C32_ReturnStep ==
    PitReturns =>
        /\ fsh'.pitForMatching.src = "device"
        /\ fsh'.pitForMatching.len = pit.pitSize
        /\ 0 < pit.pitSize /\ pit.pitSize <= PitSizeLimit
        /\ pit.maxRead <= PitReadChunk
        /\ IsPitEnd(lastWrite)
\* the read requests of receivePitData carry the counter of the chunks read so far
C32_RequestStep ==
    pc = "pr_chunk_w" =>
        /\ FrameCmd(lastWrite') = 101 /\ FrameSub(lastWrite') = 2
        /\ FrameArg(lastWrite', 0) = pit.counter
        /\ pit.counter * PitReadChunk >= pit.got
\* C32: when receivePitData returns, the PIT it returns has exactly the announced
\* pit_size bytes (0 < pit_size <= 0x100000), read in chunks of at most 500 bytes
\* requested by (101, 2, counter) frames, and closed by (101, 3, 0) and one read
C32_PitComplete == [][C32_ReturnStep /\ C32_RequestStep]_vars
\* the same without the length: chunk sizes, request counters and the end frame
C32_PitProtocol ==
    [][(PitReturns => pit.maxRead <= PitReadChunk /\ IsPitEnd(lastWrite)
                      /\ 0 < pit.pitSize /\ pit.pitSize <= PitSizeLimit)
       /\ C32_RequestStep]_vars
\* a PIT of no bytes was returned, though every announced size is at least 1
C32_ShortPit ==
    /\ fsh.pitForMatching.src = "device" /\ fsh.pitForMatching.len = 0
    /\ pc \in {"idle", "ub_match"}
    /\ IsPitEnd(lastWrite)

(***************************************************************************)
(* C33                                                                     *)
(***************************************************************************)
IsEndSession(w) ==
    w.kind = "cmd" /\ FrameCmd(w) = 103 /\ FrameSub(w) = 0 /\ FrameArg(w, 0) = 0
IsReboot(w) ==
    w.kind = "cmd" /\ FrameCmd(w) = 103 /\ FrameSub(w) = 1 /\ FrameArg(w, 0) = 0
Closing == pc \in {"fl_close_w", "fl_close_r", "fl_reboot_w", "fl_done"}
C33_CloseStep ==
    \* closing begins when uploadBinaries has returned, and at no other place
    /\ (pc' = "fl_close_w" /\ pc # "fl_close_w") => pc = "ub_loop" /\ idx > Len(items)
    \* the end-session frame is the one write of closeConnection
    /\ pc = "fl_close_w" => IsEndSession(lastWrite') /\ pc' \in {"fl_close_r", "fl_reboot_w", "fl_done"}
    /\ pc = "fl_close_r" => lastWrite' = lastWrite /\ pc' \in {"fl_reboot_w", "fl_done"}
    \* the reboot frame follows iff reboot was requested
    /\ (pc \in {"fl_close_w", "fl_close_r"} /\ pc' = "fl_reboot_w") => fsh.reboot
    /\ (pc \in {"fl_close_w", "fl_close_r"} /\ pc' = "fl_done") => ~fsh.reboot
    /\ pc = "fl_reboot_w" => IsReboot(lastWrite') /\ pc' = "fl_done"
    \* whatever the transport did, flash returns true
    /\ Closing => pc' # "error"
    /\ pc = "fl_done" => pc' = "idle" /\ fsh'.result = "flashed" /\ lastWrite' = lastWrite
\* C33: after uploadBinaries flash writes (103, 0, 0) once and then, iff reboot was
\* requested, (103, 1, 0) once, and returns true whatever these transfers did
C33_CloseThenReboot ==
    /\ [](pc = "fl_done" => IF fsh.reboot THEN IsReboot(lastWrite) ELSE IsEndSession(lastWrite))
    /\ [][C33_CloseStep]_vars
\* flash is about to return true after a reboot frame whose write threw, the
\* end-session frame before it having been written and its reply read
C33_Witness ==
    /\ pc = "fl_done" /\ fsh.reboot /\ IsReboot(lastWrite) /\ lastWrite.res = "throw"
    /\ Len(ops) >= 3 /\ SubSeq(ops, Len(ops) - 2, Len(ops)) = <<"cmd", "read", "cmd">>

(***************************************************************************)
(* C34                                                                     *)
(***************************************************************************)
\* the page calls flash() or dumpPit()
CallsFlashOrDump == pc \in {"idle", "error"} /\ fsh'.op \in {"flash", "dumpPit"}
\* the call is refused: it throws at its guard and has written nothing
RefusedCall == pc' = "error" /\ err'.msg = "Not connected to device" /\ lastWrite' = NoFrame
\* without a completed connectDevice() the call is refused
C34_GuardStep == (CallsFlashOrDump /\ ~fsh.isConnected) => RefusedCall
\* after a flash that closed the session the call is refused
C34_ClosedStep == (CallsFlashOrDump /\ pc = "idle" /\ fsh.result = "flashed") => RefusedCall
\* C34: flash() and dumpPit() are refused and write nothing unless connectDevice()
\* has completed, and again once a flash has closed the session
C34_PhaseGraph ==
    /\ [](fsh.isConnected => fsh.usbOpen)
    /\ [][C34_GuardStep /\ C34_ClosedStep]_vars
\* the part about the first connectDevice() alone
C34_ConnectFirst == [](fsh.isConnected => fsh.usbOpen) /\ [][C34_GuardStep]_vars
\* flash() has returned after its reboot frame went out, and the flasher still
\* counts itself connected: the next flash() or dumpPit() passes the guard
C34_ConnectedAfterReboot ==
    /\ pc = "idle" /\ fsh.result = "flashed" /\ fsh.isConnected
    /\ lastWrite.kind = "cmd" /\ FrameCmd(lastWrite) = 103 /\ FrameSub(lastWrite) = 1
    /\ lastWrite.res = "ok"

(***************************************************************************)
(* C35                                                                     *)
(***************************************************************************)
\* the bytes of the delivered blocks that the sink has taken so far
Consumed == st.totalDecompressed - (st.blockLen - st.blockOffset)
C35_DecoderStep ==
    \* the decoder hands over block k+1 only when the sink has returned from block
    \* k: the whole block was copied, and no flush is under way
    /\ st'.delivered > st.delivered =>
          /\ pc = "st_decode" /\ st'.delivered = st.delivered + 1
          /\ st.blockOffset = st.blockLen
          /\ st.bufferPos < SEND_BUFFER_SIZE
    \* a data frame carries bytes of the blocks delivered so far, in stream order
    /\ pc = "st_blk_w" =>
          /\ lastWrite'.kind = "data"
          /\ lastWrite'.from = st.totalSent + st.offset
          /\ lastWrite'.from + lastWrite'.actual <= Consumed
\* C35: the streaming decoder delivers block k+1 only after the sink is done with
\* block k, flushes included; every frame carries data of the blocks delivered so
\* far, in stream order, and one decoded block is held at a time
C35_BlockAtATime ==
    /\ [](Streaming => /\ Consumed = st.totalSent + st.bufferPos
                       /\ st.blockOffset <= st.blockLen
                       /\ (pc \notin {"st_decode", "st_copy"} => st.bufferPos > 0))
    /\ [][C35_DecoderStep]_vars
\* the decoder is about to read its third block or a later one, after a block
\* that filled the send buffer, was flushed, and left bytes in the buffer
C35_Witness ==
    /\ pc = "st_decode" /\ st.delivered >= 2 /\ st.sequenceNum >= 1
    /\ st.bufferPos > 0 /\ st.blockOffset = st.blockLen /\ st.blockLen > 0
    /\ st.totalSent = SEND_BUFFER_SIZE /\ lastWrite.kind = "zlp"

(***************************************************************************)
(* C38                                                                     *)
(***************************************************************************)
\* transferFileStreamingLZ4 returns true: from the decoder's end with an empty
\* buffer, or from the reply of the final flush
StReturns == pc \in {"st_decode", "st_fin_r"} /\ pc' = "ub_loop"
C38_Step ==
    \* every flush sends the buffer from its first byte to bufferPos, block by block
    /\ pc = "st_blk_w" =>
          /\ lastWrite'.from = st.totalSent + st.offset
          /\ lastWrite'.actual = Min(FileTransferPacketSize, st.bufferPos - st.offset)
    \* a finalizer announces the bytes of its flush, and these went out as data
    /\ pc = "st_fin_w" =>
          /\ FrameArg(lastWrite', 1) = st.bufferPos
          /\ mlog.bytes = st.bufferPos /\ st.offset = st.bufferPos
    \* on return everything decoded has been sent
    /\ StReturns =>
          /\ st'.totalSent = 0 /\ st'.totalDecompressed = 0
          /\ LET sent == IF pc = "st_fin_r" THEN st.totalSent + st.bufferPos
                         ELSE st.totalSent
             IN  /\ sent = st.totalDecompressed
                 /\ SumActual(mlog.fin, Len(mlog.fin)) = st.totalDecompressed
                 /\ mlog.size = st.totalDecompressed
                 /\ st.blockOffset = st.blockLen
\* C38: when transferFileStreamingLZ4 returns true, the payloads of the flushed
\* chunks are, in order, the bytes of the decoded blocks: totalSent equals
\* totalDecompressed and the finalizers' actual-bytes fields add up to it
C38_AllDecodedSent == [][C38_Step]_vars
\* a streamed member of three flushes has returned, its size not a multiple of
\* the send buffer
C38_Witness ==
    /\ StMember /\ pc = "ub_loop" /\ mlog.done /\ Len(mlog.fin) = 3
    /\ mlog.size > 2 * SEND_BUFFER_SIZE /\ mlog.size < 3 * SEND_BUFFER_SIZE
    /\ SumActual(mlog.fin, 3) = mlog.size

(***************************************************************************)
(* C36                                                                     *)
(***************************************************************************)
\* uploadBinaries was given a PIT
PitPresent == fsh.pitForMatching # NoPit
\* the item as the matching loop leaves it when no entry matches: its own ids,
\* device type 2 where it had none
KeptWithDefaults(before, after) ==
    /\ after.filename = before.filename /\ after.data = before.data
    /\ after.info.partition_id = before.info.partition_id
    /\ after.info.device_type =
          (IF before.info.device_type \in {NULL, 0} THEN 2 ELSE before.info.device_type)
\* the item took the ids of a PIT entry
TookEntry(after) == after.info.partition_id \in MatchOutcomes \ {NULL}
C36_Step ==
    \* matching against a PIT fails only when the PIT does not parse, and leaves an
    \* unmatched item in the list with its defaults
    /\ (pc = "ub_match" /\ PitPresent) =>
          /\ pc' = "error" => err'.msg = "Invalid PIT"
          /\ pc' # "error" =>
                /\ pc' = "ub_loop" /\ Len(items') = Len(items)
                /\ \A i \in 1..Len(items) :
                      KeptWithDefaults(items[i], items'[i]) \/ TookEntry(items'[i])
    \* the transfer loop passes over an item for the skip tests alone
    /\ (pc = "ub_loop" /\ pc' = "ub_loop" /\ PitPresent) => SkipItem(items[idx])
    \* a member without ids of its own is finalized with partition 0 on device type 2
    /\ (pc \in {"tf_fin_w", "st_fin_w"} /\ PitPresent) =>
          /\ FrameArg(lastWrite', 4) = PartitionIdOf(items[idx].info)
          /\ FrameArg(lastWrite', 3) = DeviceTypeOf(items[idx].info)
          /\ items[idx].info.partition_id = NULL =>
                FrameArg(lastWrite', 4) = 0 /\ FrameArg(lastWrite', 3) = 2
\* C36: with a PIT, a member that matches no entry is neither skipped nor fatal:
\* it is uploaded, and its finalizers carry partition_id 0 and device_type 2
\* unless it carried ids of its own
C36_UnmatchedUploaded == [][C36_Step]_vars
\* with the device's PIT at hand, a member that matched no entry has been
\* uploaded: its finalizer named partition 0 on device type 2
C36_Witness ==
    /\ PitPresent /\ fsh.pitForMatching.src = "device"
    /\ mlog.done /\ Len(mlog.fin) > 0 /\ idx > 1
    /\ items[idx - 1].info.partition_id = NULL /\ items[idx - 1].info.device_type = 2
    /\ Last(mlog.fin).partitionId = 0 /\ Last(mlog.fin).deviceType = 2

(***************************************************************************)
(* C37                                                                     *)
(***************************************************************************)
C37_Step ==
    \* a data block carries the member's bytes from offset + chunkOffset on, as many
    \* as the block announces, and follows the bytes already sent without a gap
    /\ (pc = "tf_blk_w" /\ pc' # "error") =>
          /\ lastWrite'.kind = "data"
          /\ lastWrite'.from = tf.offset + tf.chunkOffset
          /\ lastWrite'.actual = Min(FileTransferPacketSize, tf.chunkSize - tf.chunkOffset)
          /\ lastWrite'.from + lastWrite'.actual <= tf.fileSize
          /\ mlog.bytes = tf.chunkOffset
          /\ SumSeq(mlog.seq) = tf.offset + tf.chunkSize
    \* a sequence ends when its blocks have carried the whole chunk
    /\ pc = "tf_fin_w" => mlog.bytes = tf.chunkSize /\ tf.chunkOffset = tf.chunkSize
    \* the member ends when its sequences have carried the whole member
    /\ (pc = "tf_fin_r" /\ pc' = "ub_loop") =>
          /\ tf.offset + tf.chunkSize = tf.fileSize
          /\ SumSeq(mlog.seq) = tf.fileSize
\* C37: the unpadded payloads of transferFile's data blocks are, in send order, the
\* member's bytes [0, fileSize), each once, from a pre-loaded array and from the
\* file behind the item alike
C37_PayloadsAreMember == [][C37_Step]_vars
\* a block went out whose payload is shorter than the block announces: the file
\* ends inside the member
C37_ShortBlock ==
    /\ pc = "tf_blk_r" /\ TfMember /\ items[idx].data = NULL
    /\ lastWrite.kind = "data" /\ lastWrite.res = "ok"
    /\ lastWrite.actual < tf.blockSize
    /\ lastWrite.len = FileTransferPacketSize

(***************************************************************************)
(* C39                                                                     *)
(***************************************************************************)
\* every chunk of the stream has been handed to onData
ZipTarDone == calc.fn = "ziptar" /\ calc.fed = Len(calc.ends)
\* C39: however the decompressed stream is cut into chunks, the members found are
\* those found in the stream as one chunk, and none comes from behind the
\* end-of-archive zero block
C39_ChunkingInvisible ==
    ZipTarDone =>
        /\ calc.z.items = calc.whole.items
        /\ \A k \in 1..Len(calc.z.items) :
              calc.z.items[k].tarOffsetInDecompressed <= calc.whole.tarOffset
\* C39 for the streams cut inside the archive only: no chunk begins behind the
\* first zero block, so that onData is not called again after it has seen the end
CutsInsideArchive ==
    \A k \in 1..(Len(calc.ends) - 1) : calc.ends[k] < calc.whole.tarOffset + 512
C39_ChunkingInvisibleInside ==
    (ZipTarDone /\ CutsInsideArchive) => calc.z.items = calc.whole.items
\* a well-formed archive of one member came in three chunks, the first ending 200
\* bytes into the header and the last holding the second zero block: the member
\* was found twice
C39_MemberTwice ==
    /\ ZipTarDone /\ Len(calc.ends) = 3 /\ calc.ends[1] = 200
    /\ calc.stream = Archive(<<1000>>, FALSE)
    /\ Len(calc.whole.items) = 1 /\ Len(calc.z.items) = 2
    /\ calc.z.items[2].filename = calc.z.items[1].filename

(***************************************************************************)
(* C40                                                                     *)
(***************************************************************************)
\* flash is inside receivePitData
ReceivingPit ==
    pc \in {"pr_req_w", "pr_req_r", "pr_chunk_w", "pr_chunk_r", "pr_end_w", "pr_end_r"}
\* the supplied PIT if there is one, else the embedded one if there is one
SuppliedOrEmbedded(f) ==
    IF f.pitArg # NULL THEN [src |-> "arg", len |-> f.pitArg]
    ELSE IF f.fwPit # NULL THEN [src |-> "embedded", len |-> f.fwPit]
    ELSE NoPit
C40_Step ==
    \* up to version 3 uploadBinaries is reached from the end of receivePitData only
    (pc' = "ub_match" /\ pc # "ub_match" /\ FlashProtocolVersion(fsh) <= 3)
        => pc = "pr_end_r"
\* C40: up to protocol version 3 (0 counting as 2) flash always retrieves the PIT
\* and hands the received PIT to uploadBinaries, whatever it uploaded before; above
\* version 3 it retrieves none and hands on the supplied or the embedded PIT
C40_PitForMatching ==
    /\ []((pc = "ub_match" /\ fsh.op = "flash") =>
            IF FlashProtocolVersion(fsh) <= 3
            THEN fsh.pitForMatching.src = "device"
            ELSE fsh.pitForMatching = SuppliedOrEmbedded(fsh))
    /\ []((ReceivingPit /\ fsh.op = "flash") => FlashProtocolVersion(fsh) <= 3)
    /\ [][C40_Step]_vars
\* on a version-3 device flash uploaded the supplied PIT and is about to match
\* against the PIT it then received from the device
C40_Witness ==
    /\ pc = "ub_match" /\ fsh.op = "flash" /\ fsh.protocolVersion = 3
    /\ fsh.pitArg # NULL /\ fsh.fwPit # NULL
    /\ fsh.pitForMatching.src = "device" /\ fsh.pitForMatching.len > 0
=============================================================================
